---- MODULE Spec2Model ----
(***************************************************************************)
(* Layered (Sugiyama) auto-layout of one connected component of a          *)
(* Blueprint graph: GraphLayout::LayoutComponent and the passes it drives. *)
(*                                                                         *)
(* Indices are zero-based as in the C++ code; TLA+ sequences are one-based,*)
(* so element i of an array A is At(A, i) == A[i + 1].                     *)
(* A loop is a recursive operator; where a loop hands a rebuilt value to   *)
(* its next iteration it binds that value once, as                         *)
(*   CHOOSE r \in {Loop(v) : v \in {rebuilt}} : TRUE,                       *)
(* which is Loop(rebuilt).                                                 *)
(* Floating-point sizes, positions and spacings are modelled by integers   *)
(* (all sizes are even, so that centring within a column is exact).        *)
(***************************************************************************)
EXTENDS Integers, Sequences, FiniteSets, TLC

\* ------------------------------------------------------------------------
\* Bounds of the model
\* ------------------------------------------------------------------------
MaxEdges == 3

\* RemoveCycles_Flip logs at most this many flips in Flipped (the loop itself
\* is not bounded by it).
MaxFlipsLogged == 4

\* ------------------------------------------------------------------------
\* Program constants
\* ------------------------------------------------------------------------
INDEX_NONE == -1
kSugiyamaSweeps == 8
DefaultNodeSpacingX == 300
DefaultNodeSpacingY == 60
DefaultVariableGetMinLength == 1
TightenSweeps == 10
RelaxationPasses == 4

\* ------------------------------------------------------------------------
\* Generic helpers
\* ------------------------------------------------------------------------
At(A, i) == A[i + 1]

Max2(a, b) == IF a >= b THEN a ELSE b
Min2(a, b) == IF a <= b THEN a ELSE b

Idx(A) == 0 .. (Len(A) - 1)

\* TArray::Init(Value, Count), as a tuple.
InitArray(Value, Count) == [i \in 1..Count |-> Value] \o <<>>

RECURSIVE LexCompare(_, _)
\* Three-way lexicographic comparison of two integer sequences.
LexCompare(a, b) ==
    IF a = <<>> /\ b = <<>> THEN 0
    ELSE IF a = <<>> THEN -1
    ELSE IF b = <<>> THEN 1
    ELSE IF Head(a) < Head(b) THEN -1
    ELSE IF Head(a) > Head(b) THEN 1
    ELSE LexCompare(Tail(a), Tail(b))

\* TArray::Sort with a strict ordering Less: element i goes to the position
\* counted by the elements that precede it (ties keep their input order).
SortBy(s, Less(_, _)) ==
    LET Sorted(v) ==
            LET n == Len(v)
                pos(i) == Cardinality({j \in 1..n :
                              Less(v[j], v[i]) \/ (~Less(v[i], v[j]) /\ j < i)}) + 1
            IN  [k \in 1..n |-> v[CHOOSE i \in 1..n : pos(i) = k]] \o <<>>
    IN  CHOOSE r \in {Sorted(v) : v \in {s}} : TRUE

\* The elements of a finite set of integers in ascending order.
SetToSortedSeq(S) ==
    LET Ascending(T) ==
            [k \in 1..Cardinality(T) |->
                CHOOSE v \in T : Cardinality({w \in T : w < v}) = k - 1] \o <<>>
    IN  CHOOSE r \in {Ascending(T) : T \in {S}} : TRUE

\* The indices 0..n-1 that satisfy Test, ascending (a filtering for-loop).
IndicesWhere(n, Test(_)) == SetToSortedSeq({i \in 0..(n - 1) : Test(i)})

\* TMap::FindRef: the mapped value, or a default-constructed value (0 for
\* int32) when the key is absent.
FindRef(m, k) == IF k \in DOMAIN m THEN m[k] ELSE 0

\* TMap::Add on a map modelled as a function: insert or overwrite.
MapAdd(m, k, v) == [x \in (DOMAIN m) \cup {k} |-> IF x = k THEN v ELSE m[x]]

EmptyMap == [x \in {} |-> 0]

\* ------------------------------------------------------------------------
\* Node keys, pin keys and stable keys (GraphLayoutKeyUtils.h)
\* ------------------------------------------------------------------------
\* A node key is a GUID.  A caller-supplied GUID is [hash |-> g, seed |-> <<>>];
\* a synthetic GUID is derived from a seed string by CRC32, modelled by a
\* mixing function of the seed (hash) together with the seed itself, so that
\* equal seeds give equal keys and different seeds different keys.
RealKey(g) == [hash |-> g, seed |-> <<>>]

KeySeq(k) == <<k.hash>> \o k.seed

CompareNodeKey(A, B) == LexCompare(KeySeq(A), KeySeq(B))

NodeKeyLess(A, B) == CompareNodeKey(A, B) < 0

EPinDirection_Input == 0
EPinDirection_Output == 1

MakePinKey(Owner, Direction, PinName, PinIndex) ==
    [NodeKey |-> Owner, Direction |-> Direction, PinName |-> PinName,
     PinIndex |-> PinIndex]

ComparePinKey(A, B) ==
    LET c == CompareNodeKey(A.NodeKey, B.NodeKey)
    IN  IF c # 0 THEN c
        ELSE IF A.Direction # B.Direction
             THEN (IF A.Direction < B.Direction THEN -1 ELSE 1)
        ELSE IF A.PinName # B.PinName
             THEN (IF A.PinName < B.PinName THEN -1 ELSE 1)
        ELSE IF A.PinIndex # B.PinIndex
             THEN (IF A.PinIndex < B.PinIndex THEN -1 ELSE 1)
        ELSE 0

PinKeyLess(A, B) == ComparePinKey(A, B) < 0

\* "%s|%s|%s|%d": the key string, the direction letter (I before O), the pin
\* name and the pin index, as a sequence compared like the string.
BuildPinKeyString(K) == KeySeq(K.NodeKey) \o <<K.Direction, K.PinName, K.PinIndex>>

RECURSIVE SumMix(_, _)
SumMix(s, w) == IF s = <<>> THEN 0 ELSE (Head(s) * w + SumMix(Tail(s), w + 2))

\* FCrc::StrCrc32 of the seed: a fixed mixing of the seed into the key range.
MakeDeterministicGuid(Seed) == (SumMix(Seed, 3) % 7) + 1

MakeSyntheticNodeKey(Seed) == [hash |-> MakeDeterministicGuid(Seed), seed |-> Seed]

\* Pin names are numbered in lexical order; "Dummy" sorts between the two
\* names used by real pins.
PinNameExec == 1
PinNameDummy == 2
PinNameData == 3

MakeDummyPinKey(Owner, Direction) == MakePinKey(Owner, Direction, PinNameDummy, 0)

\* Leading tokens of the seeds "ExecTail|..." and "Dummy|...", and the
\* "|seg" suffix token of split-edge stable keys.
SeedExecTail == 5
SeedDummy == 4
SeedSeg == 9

\* ------------------------------------------------------------------------
\* Input data (unnamed/part_007: GraphLayout.h)
\* ------------------------------------------------------------------------
EEdgeKind_Exec == "Exec"
EEdgeKind_Data == "Data"

\* The three shapes of node the inputs are drawn from: a control-flow node
\* (one exec pin and one data pin on each side), a pure data node (two data
\* inputs, one output) and a variable-get (one output).  Two more shapes
\* are used by single families: the splitter "S" (one data input, two
\* outputs), where the pin counts of the two sides must differ, and the
\* member variable-get "W" (a target input, one output), which another
\* variable-get can feed.
NodeShapes == {"E", "D", "V"}

\* GUIDs of the caller's nodes, by id; their order differs from the id order.
GuidOfId(id) == At(<<4, 6, 2, 5, 3, 7>>, id)

SizeOfId(id) == <<20 + 4 * id, 10 + 2 * id>>

PositionOfId(id) == <<1000 + 100 * id, 500 - 70 * id>>

\* FLayoutNode as the caller fills it in.
LayoutNode(id, shape) ==
    [Id |-> id, Key |-> RealKey(GuidOfId(id)),
     Size |-> SizeOfId(id), Position |-> PositionOfId(id),
     bHasExecPins |-> (shape = "E"),
     bIsVariableGet |-> (shape \in {"V", "W"}),
     ExecInputPinCount |-> IF shape = "E" THEN 1 ELSE 0,
     ExecOutputPinCount |-> IF shape = "E" THEN 1 ELSE 0,
     InputPinCount |-> IF shape = "E" THEN 2 ELSE IF shape = "D" THEN 2
                       ELSE IF shape \in {"S", "W"} THEN 1 ELSE 0,
     OutputPinCount |-> IF shape = "E" THEN 2 ELSE IF shape = "S" THEN 2 ELSE 1,
     GlobalRank |-> 0, GlobalOrder |-> 0]

\* FLayoutEdge as the caller fills it in.  An edge is an exec edge when it
\* joins the exec pins (index 0) of two control-flow nodes; otherwise it is
\* a data edge between data pins.
LayoutEdge(src, dst, shapes, exec) ==
    IF exec
    THEN [Src |-> src, Dst |-> dst, SrcPinIndex |-> 0, DstPinIndex |-> 0,
          SrcPinName |-> PinNameExec, DstPinName |-> PinNameExec,
          Kind |-> EEdgeKind_Exec]
    ELSE [Src |-> src, Dst |-> dst,
          SrcPinIndex |-> IF At(shapes, src) \in {"E", "S"} THEN 1 ELSE 0,
          DstPinIndex |-> IF At(shapes, dst) = "E" THEN 1
                          ELSE IF At(shapes, dst) \in {"S", "W"} THEN 0 ELSE src % 2,
          SrcPinName |-> PinNameData, DstPinName |-> PinNameData,
          Kind |-> EEdgeKind_Data]

\* FLayoutSettings.
LayoutSettings(vgml, align) ==
    [NodeSpacingX |-> DefaultNodeSpacingX,
     NodeSpacingXExec |-> DefaultNodeSpacingX,
     NodeSpacingXData |-> DefaultNodeSpacingX,
     NodeSpacingYExec |-> DefaultNodeSpacingY,
     NodeSpacingYData |-> DefaultNodeSpacingY,
     VariableGetMinLength |-> vgml,
     RankAlignment |-> align]

\* FLayoutComponentResult: the position map and the bounding box.
EmptyResult == [NodePositions |-> EmptyMap, Bounds |-> <<>>]

\* FBox2f += FBox2f(Min, Max); an invalid (empty) box is <<>>.
BoxAdd(B, Min, Max) ==
    IF B = <<>> THEN <<Min, Max>>
    ELSE << <<Min2(B[1][1], Min[1]), Min2(B[1][2], Min[2])>>,
            <<Max2(B[2][1], Max[1]), Max2(B[2][2], Max[2])>> >>

\* ------------------------------------------------------------------------
\* Working-graph builder (unnamed/part_005)
\* ------------------------------------------------------------------------
\* GraphIdToIndex: every node id mapped to its index; a repeated id keeps
\* the last index added.
BuildGraphIdToIndex(GraphNodes) ==
    [id \in {At(GraphNodes, i).Id : i \in Idx(GraphNodes)} |->
        CHOOSE i \in Idx(GraphNodes) :
            /\ At(GraphNodes, i).Id = id
            /\ \A j \in Idx(GraphNodes) : At(GraphNodes, j).Id = id => j <= i]

\* Seeded fault: the sort without Algo::Unique.
SortUnique_KeepRepeats(ids) == SortBy(ids, LAMBDA a, b : a < b)

\* SortedIds.Sort(); SortedIds.SetNum(Algo::Unique(SortedIds)).
SortUnique(ids) == SetToSortedSeq({ids[i] : i \in 1..Len(ids)})

RECURSIVE BuildWorkNodesLoop(_, _, _, _, _)
BuildWorkNodesLoop(GraphNodes, GraphIdToIndex, ids, OutNodes, OutLocalIdToIndex) ==
    IF ids = <<>>
    THEN [ok |-> TRUE, crashed |-> FALSE, Nodes |-> OutNodes,
          LocalIdToIndex |-> OutLocalIdToIndex, Error |-> ""]
    ELSE LET NodeId == Head(ids)
             GraphIndex == FindRef(GraphIdToIndex, NodeId)
         IN  IF GraphIndex = INDEX_NONE
             THEN [ok |-> FALSE, crashed |-> FALSE, Nodes |-> OutNodes,
                   LocalIdToIndex |-> OutLocalIdToIndex,
                   Error |-> "Missing node id in layout graph"]
             ELSE IF GraphIndex \notin Idx(GraphNodes)
             THEN \* Graph.Nodes[GraphIndex] fails the array range check.
                  [ok |-> FALSE, crashed |-> TRUE, Nodes |-> OutNodes,
                   LocalIdToIndex |-> OutLocalIdToIndex, Error |-> ""]
             ELSE LET GraphNode == At(GraphNodes, GraphIndex)
                      LocalIndex == Len(OutNodes)
                      Node == [GraphNode EXCEPT
                                 !.Size = <<Max2(0, GraphNode.Size[1]),
                                            Max2(0, GraphNode.Size[2])>>,
                                 !.GlobalRank = 0, !.GlobalOrder = 0]
                  IN  BuildWorkNodesLoop(GraphNodes, GraphIdToIndex, Tail(ids),
                                         Append(OutNodes, Node),
                                         MapAdd(OutLocalIdToIndex, Node.Id, LocalIndex))

BuildWorkNodes(G, ComponentIds) ==
    BuildWorkNodesLoop(G.Nodes, BuildGraphIdToIndex(G.Nodes),
                       SortUnique(ComponentIds), <<>>, EmptyMap)

\* The working-edge ordering: StableKey, then Src, Dst, SrcPinIndex.
WorkEdgeLess(A, B) ==
    LET c == LexCompare(A.StableKey, B.StableKey)
    IN  IF c # 0 THEN c < 0
        ELSE IF A.Src # B.Src THEN A.Src < B.Src
        ELSE IF A.Dst # B.Dst THEN A.Dst < B.Dst
        ELSE A.SrcPinIndex < B.SrcPinIndex

LocalizeEdge(Edge, WNodes, LocalIdToIndex) ==
    LET SrcIndex == FindRef(LocalIdToIndex, Edge.Src)
        DstIndex == FindRef(LocalIdToIndex, Edge.Dst)
        sp == Max2(0, Edge.SrcPinIndex)
        dp == Max2(0, Edge.DstPinIndex)
        SrcPinKey == MakePinKey(At(WNodes, SrcIndex).Key, EPinDirection_Output,
                                Edge.SrcPinName, sp)
        DstPinKey == MakePinKey(At(WNodes, DstIndex).Key, EPinDirection_Input,
                                Edge.DstPinName, dp)
    IN  [Src |-> SrcIndex, Dst |-> DstIndex, Kind |-> Edge.Kind,
         SrcPinIndex |-> sp, DstPinIndex |-> dp,
         SrcPinName |-> Edge.SrcPinName, DstPinName |-> Edge.DstPinName,
         StableKey |-> BuildPinKeyString(SrcPinKey) \o BuildPinKeyString(DstPinKey)]

EdgeIsKept(Edge, LocalIdToIndex) ==
    LET SrcIndex == FindRef(LocalIdToIndex, Edge.Src)
        DstIndex == FindRef(LocalIdToIndex, Edge.Dst)
    IN  /\ SrcIndex # INDEX_NONE
        /\ DstIndex # INDEX_NONE
        /\ SrcIndex # DstIndex

BuildWorkEdges(G, WNodes, LocalIdToIndex) ==
    LET Kept == SelectSeq(G.Edges, LAMBDA e : EdgeIsKept(e, LocalIdToIndex))
        Local == [i \in 1..Len(Kept) |-> LocalizeEdge(Kept[i], WNodes, LocalIdToIndex)]
    IN  SortBy(Local, WorkEdgeLess)

\* FSugiyamaGraph built from the working nodes and edges.
BuildSugiyamaGraph(WNodes, WEdges) ==
    [Nodes |-> [i \in 1..Len(WNodes) |->
                 [Id |-> i - 1, Key |-> WNodes[i].Key,
                  ExecInputPinCount |-> Max2(0, WNodes[i].ExecInputPinCount),
                  ExecOutputPinCount |-> Max2(0, WNodes[i].ExecOutputPinCount),
                  InputPinCount |-> Max2(0, WNodes[i].InputPinCount),
                  OutputPinCount |-> Max2(0, WNodes[i].OutputPinCount),
                  bHasExecPins |-> WNodes[i].bHasExecPins,
                  bIsVariableGet |-> WNodes[i].bIsVariableGet,
                  Size |-> WNodes[i].Size, Rank |-> 0, Order |-> 0,
                  bIsDummy |-> FALSE, SourceIndex |-> i - 1]],
     Edges |-> [i \in 1..Len(WEdges) |->
                 [Src |-> WEdges[i].Src, Dst |-> WEdges[i].Dst,
                  SrcPin |-> MakePinKey(At(WNodes, WEdges[i].Src).Key,
                                        EPinDirection_Output,
                                        WEdges[i].SrcPinName, WEdges[i].SrcPinIndex),
                  DstPin |-> MakePinKey(At(WNodes, WEdges[i].Dst).Key,
                                        EPinDirection_Input,
                                        WEdges[i].DstPinName, WEdges[i].DstPinIndex),
                  SrcPinIndex |-> WEdges[i].SrcPinIndex,
                  DstPinIndex |-> WEdges[i].DstPinIndex,
                  Kind |-> WEdges[i].Kind, StableKey |-> WEdges[i].StableKey,
                  MinLen |-> 1, bReversed |-> FALSE]]]

EmptySugiyamaGraph == [Nodes |-> <<>>, Edges |-> <<>>]

\* ------------------------------------------------------------------------
\* Cycle removal (unnamed/part_005)
\* ------------------------------------------------------------------------
EffSrc(E) == IF E.bReversed THEN E.Dst ELSE E.Src
EffDst(E) == IF E.bReversed THEN E.Src ELSE E.Dst
EffSrcPin(E) == IF E.bReversed THEN E.DstPin ELSE E.SrcPin
EffDstPin(E) == IF E.bReversed THEN E.SrcPin ELSE E.DstPin

\* Per-node out-edge lists under the current reversal flags, each sorted by
\* effective source pin, effective destination key, stable key, index.
BuildEffectiveOutEdges(G) ==
    LET Less(A, B) ==
            LET EA == At(G.Edges, A)
                EB == At(G.Edges, B)
                c1 == ComparePinKey(EffSrcPin(EA), EffSrcPin(EB))
                c2 == CompareNodeKey(At(G.Nodes, EffDst(EA)).Key,
                                     At(G.Nodes, EffDst(EB)).Key)
                c3 == LexCompare(EA.StableKey, EB.StableKey)
            IN  IF c1 # 0 THEN c1 < 0
                ELSE IF c2 # 0 THEN c2 < 0
                ELSE IF c3 # 0 THEN c3 < 0
                ELSE A < B
    IN  [n \in 1..Len(G.Nodes) |->
            SortBy(IndicesWhere(Len(G.Edges),
                       LAMBDA e : /\ EffSrc(At(G.Edges, e)) = n - 1
                                  /\ EffSrc(At(G.Edges, e)) # EffDst(At(G.Edges, e))),
                   Less)]

\* Node indices sorted by node key.
NodeOrderByKey(G) ==
    SortBy([i \in 1..Len(G.Nodes) |-> i - 1],
           LAMBDA A, B : NodeKeyLess(At(G.Nodes, A).Key, At(G.Nodes, B).Key))

\* The iterative DFS from one start node: Stack holds <<NodeIndex, NextEdge>>
\* entries; an edge into a node that is still on the stack is a back edge.
RECURSIVE DfsWalk(_, _, _, _, _)
DfsWalk(G, OutEdges, VisitState, Stack, BackEdges) ==
    IF Stack = <<>> THEN [VisitState |-> VisitState, BackEdges |-> BackEdges]
    ELSE LET Entry == Stack[Len(Stack)]
             Node == Entry[1]
             NextEdge == Entry[2]
             Rest == SubSeq(Stack, 1, Len(Stack) - 1)
         IN  IF NextEdge >= Len(At(OutEdges, Node))
             THEN CHOOSE r \in {DfsWalk(G, OutEdges, v, st, BackEdges) :
                                 v \in {[VisitState EXCEPT ![Node + 1] = "Done"]},
                                 st \in {Rest}} : TRUE
             ELSE LET EdgeIndex == At(At(OutEdges, Node), NextEdge)
                      NextNode == EffDst(At(G.Edges, EdgeIndex))
                      Stack1 == Append(Rest, <<Node, NextEdge + 1>>)
                  IN  IF At(VisitState, NextNode) = "Unvisited"
                      THEN CHOOSE r \in {DfsWalk(G, OutEdges, v, st, BackEdges) :
                                          v \in {[VisitState EXCEPT
                                                     ![NextNode + 1] = "Visiting"]},
                                          st \in {Append(Stack1, <<NextNode, 0>>)}} : TRUE
                      ELSE IF At(VisitState, NextNode) = "Visiting"
                      THEN CHOOSE r \in {DfsWalk(G, OutEdges, VisitState, st, b) :
                                          st \in {Stack1},
                                          b \in {Append(BackEdges, EdgeIndex)}} : TRUE
                      ELSE CHOOSE r \in {DfsWalk(G, OutEdges, VisitState, st, BackEdges) :
                                          st \in {Stack1}} : TRUE

RECURSIVE DfsFromEach(_, _, _, _, _)
DfsFromEach(G, OutEdges, Starts, VisitState, BackEdges) ==
    IF Starts = <<>> THEN BackEdges
    ELSE LET StartNode == Head(Starts)
         IN  IF At(VisitState, StartNode) # "Unvisited"
             THEN CHOOSE r \in {DfsFromEach(G, OutEdges, t, VisitState, BackEdges) :
                                 t \in {Tail(Starts)}} : TRUE
             ELSE CHOOSE r \in
                      {DfsFromEach(G, OutEdges, t, R.VisitState, R.BackEdges) :
                          t \in {Tail(Starts)},
                          R \in {DfsWalk(G, OutEdges,
                                         [VisitState EXCEPT ![StartNode + 1] = "Visiting"],
                                         <<(<<StartNode, 0>>)>>, BackEdges)}} : TRUE

\* The back edges one full DFS pass finds under the current reversal flags.
FindBackEdges(G) ==
    CHOOSE r \in {DfsFromEach(G, OutEdges, Starts, VisitState, <<>>) :
                     OutEdges \in {BuildEffectiveOutEdges(G) \o <<>>},
                     Starts \in {NodeOrderByKey(G)},
                     VisitState \in {InitArray("Unvisited", Len(G.Nodes))}} : TRUE

\* The ordering that selects the back edge to reverse.
IsEdgeLess(G, A, B) ==
    LET EA == At(G.Edges, A)
        EB == At(G.Edges, B)
        c1 == CompareNodeKey(At(G.Nodes, EffSrc(EA)).Key, At(G.Nodes, EffSrc(EB)).Key)
        c2 == ComparePinKey(EffSrcPin(EA), EffSrcPin(EB))
        c3 == CompareNodeKey(At(G.Nodes, EffDst(EA)).Key, At(G.Nodes, EffDst(EB)).Key)
        c4 == ComparePinKey(EffDstPin(EA), EffDstPin(EB))
    IN  IF c1 # 0 THEN c1 < 0
        ELSE IF c2 # 0 THEN c2 < 0
        ELSE IF c3 # 0 THEN c3 < 0
        ELSE IF c4 # 0 THEN c4 < 0
        ELSE A < B

\* Seeded fault: the first edge of the graph is reversed whatever the back
\* edges are.
PickBestEdge_First(G, BackEdges, BestEdge) == 0

RECURSIVE PickBestEdge(_, _, _)
PickBestEdge(G, BackEdges, BestEdge) ==
    IF BackEdges = <<>> THEN BestEdge
    ELSE CHOOSE r \in {PickBestEdge(G, t, b) :
                        t \in {Tail(BackEdges)},
                        b \in {IF IsEdgeLess(G, Head(BackEdges), BestEdge)
                               THEN Head(BackEdges) ELSE BestEdge}} : TRUE

\* Seeded fault: the chosen edge is left as it is.
FlipEdge_Keep(G, BestEdge) == G

FlipEdge(G, BestEdge) ==
    [G EXCEPT !.Edges[BestEdge + 1].bReversed = ~G.Edges[BestEdge + 1].bReversed]

\* RemoveCycles returns at once on fewer than two nodes or no edges.
RemoveCyclesSkips(G) == Len(G.Nodes) < 2 \/ G.Edges = <<>>

\* Seeded fault: the reversal flags are cleared without swapping the ends.
ApplyEdgeDirections_FlagsOnly(G) ==
    [G EXCEPT !.Edges = [i \in 1..Len(G.Edges) |-> [G.Edges[i] EXCEPT !.bReversed = FALSE]]]

\* Commit the reversal flags: swap the endpoints and the pin data.
ApplyEdgeDirections(G) ==
    [G EXCEPT !.Edges =
        [i \in 1..Len(G.Edges) |->
            LET E == G.Edges[i]
            IN  IF ~E.bReversed THEN E
                ELSE [E EXCEPT !.Src = E.Dst, !.Dst = E.Src,
                               !.SrcPin = E.DstPin, !.DstPin = E.SrcPin,
                               !.SrcPinIndex = E.DstPinIndex,
                               !.DstPinIndex = E.SrcPinIndex,
                               !.bReversed = FALSE]]]

\* ------------------------------------------------------------------------
\* Layer assignment (unnamed/part_005)
\* ------------------------------------------------------------------------
\* Per-node out-edge lists of the finalized DAG, sorted by source pin,
\* destination key, stable key, index.
BuildOutEdges(G) ==
    LET Less(A, B) ==
            LET EA == At(G.Edges, A)
                EB == At(G.Edges, B)
                c1 == ComparePinKey(EA.SrcPin, EB.SrcPin)
                c2 == CompareNodeKey(At(G.Nodes, EA.Dst).Key, At(G.Nodes, EB.Dst).Key)
                c3 == LexCompare(EA.StableKey, EB.StableKey)
            IN  IF c1 # 0 THEN c1 < 0
                ELSE IF c2 # 0 THEN c2 < 0
                ELSE IF c3 # 0 THEN c3 < 0
                ELSE A < B
    IN  [n \in 1..Len(G.Nodes) |->
            SortBy(IndicesWhere(Len(G.Edges),
                       LAMBDA e : /\ At(G.Edges, e).Src = n - 1
                                  /\ At(G.Edges, e).Src # At(G.Edges, e).Dst),
                   Less)]

EdgeHasFiniteMaxLen(G, Edge) ==
    IF Edge.Src = Edge.Dst THEN FALSE
    ELSE ~At(G.Nodes, Edge.Src).bHasExecPins \/ ~At(G.Nodes, Edge.Dst).bHasExecPins

GraphUsesFiniteMaxLen(G) ==
    \E i \in 1..Len(G.Edges) : EdgeHasFiniteMaxLen(G, G.Edges[i])

\* The number of distinct destinations of each variable-get source.
BuildVariableGetDestCounts(G) ==
    [n \in 1..Len(G.Nodes) |->
        Cardinality({G.Edges[i].Dst : i \in
            {j \in 1..Len(G.Edges) :
                /\ G.Edges[j].Src # G.Edges[j].Dst
                /\ G.Edges[j].Src = n - 1
                /\ At(G.Nodes, G.Edges[j].Src).bIsVariableGet}})]

GetEdgeMinLength(G, Edge, VariableGetMinLength, VariableGetDestCounts) ==
    IF Edge.Src \notin Idx(G.Nodes) \/ Edge.Dst \notin Idx(G.Nodes) THEN 1
    ELSE IF At(G.Nodes, Edge.Src).bHasExecPins THEN 1
    ELSE IF ~At(G.Nodes, Edge.Src).bIsVariableGet THEN 1
    ELSE IF At(VariableGetDestCounts, Edge.Src) > 1 THEN 1
    ELSE Max2(0, VariableGetMinLength)

UpdateEdgeMinLengths(G, VariableGetMinLength) ==
    LET Counts == BuildVariableGetDestCounts(G)
    IN  [G EXCEPT !.Edges =
            [i \in 1..Len(G.Edges) |->
                [G.Edges[i] EXCEPT !.MinLen =
                    GetEdgeMinLength(G, G.Edges[i], VariableGetMinLength, Counts)]]]

\* Insert NodeIndex before the first list element whose key is not smaller.
InsertSortedByNodeKey(GNodes, List, NodeIndex) ==
    LET Before == {i \in 1..Len(List) :
                      \A j \in 1..i : NodeKeyLess(At(GNodes, List[j]).Key,
                                                   At(GNodes, NodeIndex).Key)}
        k == Cardinality(Before)
    IN  SubSeq(List, 1, k) \o <<NodeIndex>> \o SubSeq(List, k + 1, Len(List))

RECURSIVE SeedQueue(_, _, _, _)
SeedQueue(GNodes, InDegree, Index, Queue) ==
    IF Index >= Len(GNodes) THEN Queue
    ELSE SeedQueue(GNodes, InDegree, Index + 1,
                   IF At(InDegree, Index) = 0
                   THEN InsertSortedByNodeKey(GNodes, Queue, Index) ELSE Queue)

\* One dequeued node of Kahn's algorithm: walk its out-edges, lower the
\* in-degree of each destination, enqueue those that reach zero.
RECURSIVE KahnRelease(_, _, _, _)
KahnRelease(G, EdgeList, InDegree, Queue) ==
    IF EdgeList = <<>> THEN [InDegree |-> InDegree, Queue |-> Queue]
    ELSE LET Dst == At(G.Edges, Head(EdgeList)).Dst
             D1 == [InDegree EXCEPT ![Dst + 1] = @ - 1]
         IN  KahnRelease(G, Tail(EdgeList), D1,
                         IF At(D1, Dst) = 0
                         THEN InsertSortedByNodeKey(G.Nodes, Queue, Dst) ELSE Queue)

RECURSIVE KahnLoop(_, _, _, _, _)
KahnLoop(G, OutEdges, InDegree, Queue, TopoOrder) ==
    IF Queue = <<>> THEN TopoOrder
    ELSE LET NodeIndex == Head(Queue)
             R == KahnRelease(G, At(OutEdges, NodeIndex), InDegree, Tail(Queue))
         IN  KahnLoop(G, OutEdges, R.InDegree, R.Queue, Append(TopoOrder, NodeIndex))

\* The topological order, with the nodes Kahn's algorithm did not reach
\* appended in key order.
BuildTopoOrder(G, OutEdges) ==
    LET InDegree == [n \in 1..Len(G.Nodes) |->
                        Cardinality({i \in 1..Len(G.Edges) :
                            /\ G.Edges[i].Src # G.Edges[i].Dst
                            /\ G.Edges[i].Dst = n - 1})] \o <<>>
        Topo == KahnLoop(G, OutEdges, InDegree,
                         SeedQueue(G.Nodes, InDegree, 0, <<>>), <<>>)
        InTopo == {Topo[i] : i \in 1..Len(Topo)}
        Remaining == SortBy(IndicesWhere(Len(G.Nodes), LAMBDA n : n \notin InTopo),
                            LAMBDA A, B : NodeKeyLess(At(G.Nodes, A).Key,
                                                      At(G.Nodes, B).Key))
    IN  Topo \o Remaining

\* The out-edges of the nodes of TopoOrder, concatenated in that order.
RECURSIVE EdgesInTopoOrder(_, _)
EdgesInTopoOrder(OutEdges, TopoOrder) ==
    IF TopoOrder = <<>> THEN <<>>
    ELSE At(OutEdges, Head(TopoOrder)) \o EdgesInTopoOrder(OutEdges, Tail(TopoOrder))

\* Forward longest-path pass: RankBase[Dst] = max(RankBase[Dst], RankBase[Src] + MinLen).
RECURSIVE ForwardPass(_, _, _)
ForwardPass(G, EdgeList, RankBase) ==
    IF EdgeList = <<>> THEN RankBase
    ELSE LET Edge == At(G.Edges, Head(EdgeList))
         IN  ForwardPass(G, Tail(EdgeList),
                 [RankBase EXCEPT ![Edge.Dst + 1] =
                     Max2(@, At(RankBase, Edge.Src) + Edge.MinLen)])

\* The constraint edges of finite maximum length, in forward order.
BoundedConstraints(G, EdgeList) ==
    SelectSeq(EdgeList, LAMBDA e : EdgeHasFiniteMaxLen(G, At(G.Edges, e)))

\* SrcToDsts[Src]: the destinations of the bounded edges of Src, in order.
SrcToDsts(G, Bounded, Src) ==
    LET Mine == SelectSeq(Bounded, LAMBDA e : At(G.Edges, e).Src = Src)
    IN  [i \in 1..Len(Mine) |-> At(G.Edges, Mine[i]).Dst]

\* Seeded fault: the tightening forgets the edge weight.
SrcToConstraintWeight_None(G, Bounded, Src) == 0

\* SrcToConstraint[Src].Weight: the weight of the last bounded edge added for Src.
SrcToConstraintWeight(G, Bounded, Src) ==
    LET Mine == SelectSeq(Bounded, LAMBDA e : At(G.Edges, e).Src = Src)
    IN  At(G.Edges, Mine[Len(Mine)]).MinLen

MinOfSeq(RankBase, DstList) ==
    CHOOSE m \in {At(RankBase, DstList[i]) : i \in 1..Len(DstList)} :
        \A i \in 1..Len(DstList) : m <= At(RankBase, DstList[i])

\* One backward sweep over the nodes in reverse topological order.
RECURSIVE BackwardSweep(_, _, _, _, _)
BackwardSweep(G, Bounded, RevOrder, RankBase, bUpdated) ==
    IF RevOrder = <<>> THEN [RankBase |-> RankBase, bUpdated |-> bUpdated]
    ELSE LET NodeIndex == Head(RevOrder)
             DstList == SrcToDsts(G, Bounded, NodeIndex)
         IN  IF DstList = <<>>
             THEN BackwardSweep(G, Bounded, Tail(RevOrder), RankBase, bUpdated)
             ELSE LET MinRank == Max2(MinOfSeq(RankBase, DstList)
                                        - SrcToConstraintWeight(G, Bounded, NodeIndex),
                                      At(RankBase, NodeIndex))
                  IN  IF MinRank = At(RankBase, NodeIndex)
                      THEN BackwardSweep(G, Bounded, Tail(RevOrder), RankBase, bUpdated)
                      ELSE BackwardSweep(G, Bounded, Tail(RevOrder),
                               [RankBase EXCEPT ![NodeIndex + 1] = MinRank], TRUE)

\* Seeded fault: the sequence is left in its order.
Reverse_Not(s) == s

Reverse(s) == [i \in 1..Len(s) |-> s[Len(s) + 1 - i]]

\* The backward sweeps: Sweep = 0 .. TightenSweeps - 1, each run in full.
\* History records the RankBase after every sweep.
RECURSIVE BackwardSweeps(_, _, _, _, _, _)
BackwardSweeps(G, Bounded, RevOrder, Sweep, RankBase, History) ==
    IF Sweep >= TightenSweeps THEN [RankBase |-> RankBase, History |-> History]
    ELSE LET R == BackwardSweep(G, Bounded, RevOrder, RankBase, FALSE)
         IN  BackwardSweeps(G, Bounded, RevOrder, Sweep + 1, R.RankBase,
                            Append(History, [RankBase |-> R.RankBase,
                                             bUpdated |-> R.bUpdated]))

\* AssignLayers: the rank of every node, with the intermediate results.
AssignLayersRun(G) ==
    LET OutEdges == BuildOutEdges(G)
        TopoOrder == BuildTopoOrder(G, OutEdges)
        EdgeList == EdgesInTopoOrder(OutEdges, TopoOrder)
        Forward == ForwardPass(G, EdgeList, InitArray(0, Len(G.Nodes)))
        bUseMaxLenConstraints == GraphUsesFiniteMaxLen(G)
        Back == BackwardSweeps(G, BoundedConstraints(G, EdgeList),
                               Reverse(TopoOrder), 0, Forward, <<>>)
    IN  [TopoOrder |-> TopoOrder,
         bUseMaxLenConstraints |-> bUseMaxLenConstraints,
         Forward |-> Forward,
         History |-> IF bUseMaxLenConstraints THEN Back.History ELSE <<>>,
         RankBase |-> IF bUseMaxLenConstraints THEN Back.RankBase ELSE Forward]

MaxOfSeq(s) == IF s = <<>> THEN 0
               ELSE CHOOSE m \in {s[i] : i \in 1..Len(s)} : \A i \in 1..Len(s) : m >= s[i]

\* Graph.Nodes[Index].Rank = RankBase[Index].
AssignLayers(G, RankBase) ==
    [G EXCEPT !.Nodes = [i \in 1..Len(G.Nodes) |->
                            [G.Nodes[i] EXCEPT !.Rank = RankBase[i]]]]

\* ------------------------------------------------------------------------
\* Terminal exec tails and long-edge splitting (unnamed/part_005)
\* ------------------------------------------------------------------------
\* A synthetic node: zero size, no source index.
SyntheticNode(Id, Key, InPins, OutPins, ExecIn, ExecOut, bExec, Rank) ==
    [Id |-> Id, Key |-> Key,
     ExecInputPinCount |-> ExecIn, ExecOutputPinCount |-> ExecOut,
     InputPinCount |-> InPins, OutputPinCount |-> OutPins,
     bHasExecPins |-> bExec, bIsVariableGet |-> FALSE,
     Size |-> <<0, 0>>, Rank |-> Rank, Order |-> 0,
     bIsDummy |-> TRUE, SourceIndex |-> INDEX_NONE]

\* The outgoing exec edges of a node among the edges present before padding.
OutExecCount(G, NodeIndex) ==
    Cardinality({i \in 1..Len(G.Edges) :
        /\ G.Edges[i].Kind = EEdgeKind_Exec
        /\ G.Edges[i].Src # G.Edges[i].Dst
        /\ G.Edges[i].Src = NodeIndex})

\* Seeded fault: terminal nodes of the last rank get a tail, too.
NeedsExecTail_AnyRank(G0, NodeIndex, MaxRankIn) ==
    /\ ~At(G0.Nodes, NodeIndex).bIsDummy
    /\ At(G0.Nodes, NodeIndex).bHasExecPins
    /\ ~(OutExecCount(G0, NodeIndex) > 0)

NeedsExecTail(G0, NodeIndex, MaxRankIn) ==
    LET Node == At(G0.Nodes, NodeIndex)
    IN  /\ ~Node.bIsDummy
        /\ Node.bHasExecPins
        /\ ~(OutExecCount(G0, NodeIndex) > 0)
        /\ ~(Node.Rank >= MaxRankIn)

RECURSIVE AddTailsLoop(_, _, _, _)
AddTailsLoop(G0, G, NodeIndex, MaxRankIn) ==
    IF NodeIndex >= Len(G0.Nodes) THEN G
    ELSE IF ~NeedsExecTail(G0, NodeIndex, MaxRankIn)
    THEN AddTailsLoop(G0, G, NodeIndex + 1, MaxRankIn)
    ELSE LET NodeKey == At(G0.Nodes, NodeIndex).Key
             TailSeed == <<SeedExecTail>> \o KeySeq(NodeKey)
             TailId == Len(G.Nodes)
             TailKey == MakeSyntheticNodeKey(TailSeed)
             Tail_ == SyntheticNode(TailId, TailKey, 1, 0, 1, 0, TRUE, MaxRankIn)
             TailEdge == [Src |-> NodeIndex, Dst |-> TailId,
                          SrcPin |-> MakeDummyPinKey(NodeKey, EPinDirection_Output),
                          DstPin |-> MakeDummyPinKey(TailKey, EPinDirection_Input),
                          SrcPinIndex |-> 0, DstPinIndex |-> 0,
                          Kind |-> EEdgeKind_Exec, StableKey |-> TailSeed,
                          MinLen |-> 1, bReversed |-> FALSE]
         IN  CHOOSE r \in {AddTailsLoop(G0, g, NodeIndex + 1, MaxRankIn) :
                            g \in {[Nodes |-> Append(G.Nodes, Tail_),
                                    Edges |-> Append(G.Edges, TailEdge)]}} : TRUE

AddTerminalExecTailNodes(G, MaxRankIn) ==
    IF MaxRankIn <= 0 \/ G.Nodes = <<>> THEN G
    ELSE AddTailsLoop(G, G, 0, MaxRankIn)

\* The dummy chain of one long edge: Step = 1 .. RankDiff - 1, then the
\* closing segment into the original destination.
RECURSIVE SplitChain(_, _, _, _, _, _)
SplitChain(Edge, SrcRank, RankDiff, Step, Prev, Acc) ==
    IF Step >= RankDiff
    THEN LET FinalEdge ==
                 [Src |-> Prev, Dst |-> Edge.Dst,
                  SrcPin |-> MakeDummyPinKey(At(Acc.Nodes, Prev).Key, EPinDirection_Output),
                  DstPin |-> Edge.DstPin,
                  SrcPinIndex |-> 0, DstPinIndex |-> Edge.DstPinIndex,
                  Kind |-> Edge.Kind, StableKey |-> Edge.StableKey \o <<SeedSeg, RankDiff>>,
                  MinLen |-> Edge.MinLen, bReversed |-> FALSE]
         IN  [Nodes |-> Acc.Nodes, NewEdges |-> Append(Acc.NewEdges, FinalEdge)]
    ELSE LET bExecEdge == Edge.Kind = EEdgeKind_Exec
             DummyId == Len(Acc.Nodes)
             DummyKey == MakeSyntheticNodeKey(<<SeedDummy>> \o Edge.StableKey \o <<Step>>)
             Dummy == SyntheticNode(DummyId, DummyKey, 1, 1,
                                    IF bExecEdge THEN 1 ELSE 0,
                                    IF bExecEdge THEN 1 ELSE 0,
                                    bExecEdge, SrcRank + Step)
             Segment ==
                 [Src |-> Prev, Dst |-> DummyId,
                  SrcPin |-> IF Prev = Edge.Src THEN Edge.SrcPin
                             ELSE MakeDummyPinKey(At(Acc.Nodes, Prev).Key,
                                                  EPinDirection_Output),
                  DstPin |-> MakeDummyPinKey(DummyKey, EPinDirection_Input),
                  SrcPinIndex |-> IF Prev = Edge.Src THEN Edge.SrcPinIndex ELSE 0,
                  DstPinIndex |-> 0,
                  Kind |-> Edge.Kind, StableKey |-> Edge.StableKey \o <<SeedSeg, Step>>,
                  MinLen |-> Edge.MinLen, bReversed |-> FALSE]
         IN  CHOOSE r \in {SplitChain(Edge, SrcRank, RankDiff, Step + 1, DummyId, a) :
                            a \in {[Nodes |-> Append(Acc.Nodes, Dummy),
                                    NewEdges |-> Append(Acc.NewEdges, Segment)]}} : TRUE

\* Seeded fault: edges spanning two ranks are kept unsplit.
KeepsEdge_Loose(RankDiff) == RankDiff <= 2

\* SplitLongEdges keeps an edge that spans at most one rank.
KeepsEdge(RankDiff) == RankDiff <= 1

RECURSIVE SplitLoop(_, _)
SplitLoop(OldEdges, Acc) ==
    IF OldEdges = <<>> THEN [Nodes |-> Acc.Nodes, Edges |-> Acc.NewEdges]
    ELSE LET Edge == Head(OldEdges)
             SrcRank == At(Acc.Nodes, Edge.Src).Rank
             DstRank == At(Acc.Nodes, Edge.Dst).Rank
             RankDiff == DstRank - SrcRank
         IN  CHOOSE r \in {SplitLoop(Tail(OldEdges), a) :
                            a \in {IF KeepsEdge(RankDiff)
                                   THEN [Nodes |-> Acc.Nodes,
                                         NewEdges |-> Append(Acc.NewEdges, Edge)]
                                   ELSE SplitChain(Edge, SrcRank, RankDiff, 1,
                                                   Edge.Src, Acc)}} : TRUE

SplitLongEdges(G) == SplitLoop(G.Edges, [Nodes |-> G.Nodes, NewEdges |-> <<>>])

\* MaxRank updated from the nodes after splitting.
MaxNodeRank(G, MaxRankIn) ==
    MaxOfSeq(<<MaxRankIn>> \o [i \in 1..Len(G.Nodes) |-> G.Nodes[i].Rank])

\* ------------------------------------------------------------------------
\* Ordering within ranks (unnamed/part_006)
\* ------------------------------------------------------------------------
\* Barycenters are kept as exact fractions [n, d] with d > 0.  Pin counts in
\* the inputs are 0, 1 or 2, so every pin offset and every sum is exactly
\* representable as a double and comparing the fractions agrees with
\* comparing the doubles.
Frac(n, d) == [n |-> n, d |-> d]

FracAdd(a, b) == Frac(a.n * b.d + b.n * a.d, a.d * b.d)

FracLess(a, b) == a.n * b.d < b.n * a.d

FracEq(a, b) == a.n * b.d = b.n * a.d

\* GetPinOffset: PinIndex / max(1, PinCount).
GetPinOffset(PinIndex, PinCount) == Frac(PinIndex, Max2(1, PinCount))

\* Seeded fault: the Order fields are left as they were.
SetLayerOrders_Stale(GNodes, Layer) == GNodes

\* Write each layer member's position into its Order field.
SetLayerOrders(GNodes, Layer) ==
    [i \in 1..Len(GNodes) |->
        IF \E p \in 1..Len(Layer) : Layer[p] = i - 1
        THEN [GNodes[i] EXCEPT !.Order = (CHOOSE p \in 1..Len(Layer) : Layer[p] = i - 1) - 1]
        ELSE GNodes[i]]

ExecLayerLess(G, A, B) ==
    LET NodeA == At(G.Nodes, A)
        NodeB == At(G.Nodes, B)
    IN  IF NodeA.bHasExecPins # NodeB.bHasExecPins THEN NodeA.bHasExecPins
        ELSE IF NodeA.bHasExecPins /\ NodeA.ExecOutputPinCount # NodeB.ExecOutputPinCount
        THEN NodeA.ExecOutputPinCount > NodeB.ExecOutputPinCount
        ELSE NodeKeyLess(NodeA.Key, NodeB.Key)

RECURSIVE OrderLayers(_, _, _)
OrderLayers(GNodes, RankNodes, r) ==
    IF r > Len(RankNodes) THEN GNodes
    ELSE CHOOSE res \in {OrderLayers(n, RankNodes, r + 1) :
                          n \in {SetLayerOrders(GNodes, RankNodes[r])}} : TRUE

\* AssignInitialOrder: the graph with Order set, and RankNodes.
AssignInitialOrder(G, MaxRankIn) ==
    LET Grouped == [r \in 1..(MaxRankIn + 1) |->
                      IndicesWhere(Len(G.Nodes), LAMBDA i : At(G.Nodes, i).Rank = r - 1)]
        Sorted == [r \in 1..(MaxRankIn + 1) |->
                      SortBy(Grouped[r], LAMBDA a, b : ExecLayerLess(G, a, b))]
    IN  [Graph |-> [G EXCEPT !.Nodes = OrderLayers(G.Nodes, Sorted, 1)],
         RankNodes |-> Sorted]

\* The sweep policies: the forward policy reads in-edges and the source
\* side, the backward policy out-edges and the destination side.
NeighborRankDelta(Policy) == IF Policy = "Fwd" THEN -1 ELSE 1

GetEdgesForNode(G, Policy, NodeIndex) ==
    IndicesWhere(Len(G.Edges),
                 LAMBDA e : /\ At(G.Edges, e).Src # At(G.Edges, e).Dst
                            /\ (IF Policy = "Fwd" THEN At(G.Edges, e).Dst
                                                  ELSE At(G.Edges, e).Src) = NodeIndex)

GetNeighborIndex(Policy, Edge) == IF Policy = "Fwd" THEN Edge.Src ELSE Edge.Dst

GetPinKey(Policy, Edge) == IF Policy = "Fwd" THEN Edge.SrcPin ELSE Edge.DstPin

GetPinIndex(Policy, Edge) == IF Policy = "Fwd" THEN Edge.SrcPinIndex ELSE Edge.DstPinIndex

GetPinCount(Policy, Node) == IF Policy = "Fwd" THEN Node.OutputPinCount ELSE Node.InputPinCount

ShouldSkip(Policy, Edge, Neighbor, bSkipDataPins) ==
    IF Policy = "Fwd"
    THEN Neighbor.ExecOutputPinCount = 0 /\ Edge.Kind # EEdgeKind_Exec
    ELSE bSkipDataPins /\ (Edge.Kind = EEdgeKind_Exec \/ Neighbor.ExecInputPinCount > 0)

RECURSIVE SumNeighbors(_, _, _, _, _)
SumNeighbors(G, Policy, bSkipDataPins, NeighborEdges, Acc) ==
    IF NeighborEdges = <<>> THEN Acc
    ELSE LET Edge == At(G.Edges, Head(NeighborEdges))
             Neighbor == At(G.Nodes, GetNeighborIndex(Policy, Edge))
         IN  IF ShouldSkip(Policy, Edge, Neighbor, bSkipDataPins)
             THEN SumNeighbors(G, Policy, bSkipDataPins, Tail(NeighborEdges), Acc)
             ELSE CHOOSE r \in {SumNeighbors(G, Policy, bSkipDataPins,
                                             Tail(NeighborEdges), a) :
                      a \in {[Sum |-> FracAdd(Acc.Sum,
                                       FracAdd(Frac(Neighbor.Order, 1),
                                               GetPinOffset(GetPinIndex(Policy, Edge),
                                                            GetPinCount(Policy, Neighbor)))),
                              Count |-> Acc.Count + 1]}} : TRUE

\* The FOrderItem of one node of the layer at Rank.
OrderItem(G, Policy, bSkipDataPins, Rank, NodeIndex) ==
    LET NodeEdges == GetEdgesForNode(G, Policy, NodeIndex)
        Near == SelectSeq(NodeEdges,
                    LAMBDA e : At(G.Nodes, GetNeighborIndex(Policy, At(G.Edges, e))).Rank
                                   = Rank + NeighborRankDelta(Policy))
        NeighborEdges == SortBy(Near, LAMBDA a, b : PinKeyLess(GetPinKey(Policy, At(G.Edges, a)),
                                                               GetPinKey(Policy, At(G.Edges, b))))
        S == SumNeighbors(G, Policy, bSkipDataPins, NeighborEdges,
                          [Sum |-> Frac(0, 1), Count |-> 0])
    IN  [NodeIndex |-> NodeIndex,
         Barycenter |-> IF S.Count = 0 THEN Frac(At(G.Nodes, NodeIndex).Order, 1)
                        ELSE Frac(S.Sum.n, S.Sum.d * S.Count),
         NeighborCount |-> S.Count]

\* Seeded fault: items of equal barycenter change places in every sweep.
OrderItemLess_SwapTies(G, A, B) ==
    IF ~FracEq(A.Barycenter, B.Barycenter) THEN FracLess(A.Barycenter, B.Barycenter)
    ELSE At(G.Nodes, A.NodeIndex).Order > At(G.Nodes, B.NodeIndex).Order

OrderItemLess(G, A, B) ==
    IF ~FracEq(A.Barycenter, B.Barycenter) THEN FracLess(A.Barycenter, B.Barycenter)
    ELSE NodeKeyLess(At(G.Nodes, A.NodeIndex).Key, At(G.Nodes, B.NodeIndex).Key)

\* RunSweep over the ranks listed in Ranks, in that order.
RECURSIVE RunSweep(_, _, _, _, _)
RunSweep(G, RankNodes, Ranks, Policy, bSkipDataPins) ==
    IF Ranks = <<>> THEN [Graph |-> G, RankNodes |-> RankNodes]
    ELSE LET Rank == Head(Ranks)
             Layer == At(RankNodes, Rank)
         IN  IF Layer = <<>>
             THEN RunSweep(G, RankNodes, Tail(Ranks), Policy, bSkipDataPins)
             ELSE LET Items == [i \in 1..Len(Layer) |->
                                  OrderItem(G, Policy, bSkipDataPins, Rank, Layer[i])]
                      Sorted == SortBy(Items, LAMBDA a, b : OrderItemLess(G, a, b))
                      NewLayer == [i \in 1..Len(Sorted) |-> Sorted[i].NodeIndex]
                  IN  CHOOSE r \in {RunSweep(g, rn, Tail(Ranks), Policy, bSkipDataPins) :
                          g \in {[G EXCEPT !.Nodes = SetLayerOrders(G.Nodes, NewLayer)]},
                          rn \in {[RankNodes EXCEPT ![Rank + 1] = NewLayer]}} : TRUE

ForwardRanks(MaxRankIn) == [i \in 1..MaxRankIn |-> i]

BackwardRanks(MaxRankIn) == [i \in 1..MaxRankIn |-> MaxRankIn - i]

RankOrderLess(G, A, B) ==
    IF At(G.Nodes, A).Order # At(G.Nodes, B).Order
    THEN At(G.Nodes, A).Order < At(G.Nodes, B).Order
    ELSE NodeKeyLess(At(G.Nodes, A).Key, At(G.Nodes, B).Key)

SortRankByOrder(G, RankNodes) ==
    [r \in 1..Len(RankNodes) |-> SortBy(RankNodes[r], LAMBDA a, b : RankOrderLess(G, a, b))]

\* One iteration of the sweep loop of RunCrossingReduction.
CrossingSweep(G, RankNodes, MaxRankIn, Sweep, NumSweeps) ==
    LET Forward(S) == RunSweep(S.Graph, S.RankNodes, ForwardRanks(MaxRankIn), "Fwd", FALSE)
        Backward(S, bSkipDataPins) ==
            RunSweep(S.Graph, S.RankNodes, BackwardRanks(MaxRankIn), "Bwd", bSkipDataPins)
        Sorted(S) == [Graph |-> S.Graph, RankNodes |-> SortRankByOrder(S.Graph, S.RankNodes)]
    IN  CHOOSE r \in
            {Sorted(b2) :
                b2 \in {IF Sweep < NumSweeps - 2 THEN Backward(b1, FALSE) ELSE b1 :
                    b1 \in {IF Sweep < NumSweeps - 1 THEN Backward(f, TRUE) ELSE f :
                        f \in {Forward(s) :
                            s \in {[Graph |-> G, RankNodes |-> RankNodes]}}}}} : TRUE

\* The min-len-zero edges between real nodes of one rank.
IsZeroLenEdge(G, Edge) ==
    /\ Edge.Src # Edge.Dst
    /\ Edge.MinLen = 0
    /\ Edge.Src \in Idx(G.Nodes)
    /\ Edge.Dst \in Idx(G.Nodes)
    /\ ~At(G.Nodes, Edge.Src).bIsDummy
    /\ ~At(G.Nodes, Edge.Dst).bIsDummy
    /\ At(G.Nodes, Edge.Src).Rank = At(G.Nodes, Edge.Dst).Rank

ZeroLenEdgeLess(G, A, B) ==
    LET EdgeA == At(G.Edges, A)
        EdgeB == At(G.Edges, B)
    IN  IF EdgeA.DstPinIndex # EdgeB.DstPinIndex
        THEN EdgeA.DstPinIndex < EdgeB.DstPinIndex
        ELSE NodeKeyLess(At(G.Nodes, EdgeA.Src).Key, At(G.Nodes, EdgeB.Src).Key)

\* ZeroLenByDst[Dst]: the zero-length edges into Dst, sorted by pin.
ZeroLenByDst(G, Dst) ==
    SortBy(IndicesWhere(Len(G.Edges),
                        LAMBDA e : IsZeroLenEdge(G, At(G.Edges, e)) /\ At(G.Edges, e).Dst = Dst),
           LAMBDA a, b : ZeroLenEdgeLess(G, a, b))

ZeroLenSources(G) ==
    {At(G.Edges, e).Src : e \in {x \in Idx(G.Edges) : IsZeroLenEdge(G, At(G.Edges, x))}}

\* AppendNodeAndSources: the stack walk; the top of the stack is its last
\* element, and NewLayer doubles as the Added set.
RECURSIVE AppendNodeAndSources(_, _, _)
AppendNodeAndSources(G, Stack, NewLayer) ==
    IF Stack = <<>> THEN NewLayer
    ELSE LET NodeIndex == Stack[Len(Stack)]
             Rest == SubSeq(Stack, 1, Len(Stack) - 1)
         IN  IF \E p \in 1..Len(NewLayer) : NewLayer[p] = NodeIndex
             THEN AppendNodeAndSources(G, Rest, NewLayer)
             ELSE LET EdgeList == ZeroLenByDst(G, NodeIndex)
                      Pushed == [i \in 1..Len(EdgeList) |->
                                   At(G.Edges, EdgeList[Len(EdgeList) + 1 - i]).Src]
                  IN  CHOOSE r \in {AppendNodeAndSources(G, st, Append(NewLayer, NodeIndex)) :
                                     st \in {Rest \o Pushed}} : TRUE

RECURSIVE RebuildLayer(_, _, _, _)
RebuildLayer(G, Walk, bSkipSources, NewLayer) ==
    IF Walk = <<>> THEN NewLayer
    ELSE LET NodeIndex == Head(Walk)
         IN  IF \/ \E p \in 1..Len(NewLayer) : NewLayer[p] = NodeIndex
                \/ (bSkipSources /\ NodeIndex \in ZeroLenSources(G))
             THEN RebuildLayer(G, Tail(Walk), bSkipSources, NewLayer)
             ELSE CHOOSE r \in {RebuildLayer(G, Tail(Walk), bSkipSources, nl) :
                                nl \in {AppendNodeAndSources(G, <<NodeIndex>>, NewLayer)}} : TRUE

\* Seeded fault: the grouping pass leaves every rank as the sweeps left it.
ApplyMinLenZeroOrdering_Skip(G, RankNodes) == [Graph |-> G, RankNodes |-> RankNodes]

ApplyMinLenZeroOrdering(G, RankNodes) ==
    LET NewRankNodes ==
            [r \in 1..Len(RankNodes) |->
                CHOOSE res \in {RebuildLayer(G, RankNodes[r], FALSE, first) :
                                  first \in {RebuildLayer(G, RankNodes[r], TRUE, <<>>)}} : TRUE]
    IN  [Graph |-> [G EXCEPT !.Nodes = OrderLayers(G.Nodes, NewRankNodes, 1)],
         RankNodes |-> NewRankNodes]

\* RunCrossingReduction returns at once on a flat graph or without sweeps.
CrossingReductionSkips(MaxRankIn, NumSweeps) == MaxRankIn <= 0 \/ NumSweeps <= 0

\* The sweep loop of RunCrossingReduction from sweep number Sweep on.
RECURSIVE RunSweepLoop(_, _, _, _, _)
RunSweepLoop(G, RankNodes, MaxRankIn, Sweep, NumSweeps) ==
    IF Sweep >= NumSweeps THEN [Graph |-> G, RankNodes |-> RankNodes]
    ELSE CHOOSE r \in {RunSweepLoop(s.Graph, s.RankNodes, MaxRankIn, Sweep + 1, NumSweeps) :
                        s \in {CrossingSweep(G, RankNodes, MaxRankIn, Sweep, NumSweeps)}} : TRUE

\* RunCrossingReduction as one function of its arguments.
RunCrossingReduction(G, RankNodes, MaxRankIn, NumSweeps) ==
    IF CrossingReductionSkips(MaxRankIn, NumSweeps)
    THEN [Graph |-> G, RankNodes |-> RankNodes]
    ELSE CHOOSE r \in {ApplyMinLenZeroOrdering(s.Graph, s.RankNodes) :
                        s \in {RunSweepLoop(G, RankNodes, MaxRankIn, 0, NumSweeps)}} : TRUE

\* ------------------------------------------------------------------------
\* Back to the working nodes, and placement
\* (unnamed/part_005, Private/Graph/GraphLayoutPlacementCompact.cpp)
\* ------------------------------------------------------------------------
\* Coordinates are integers: node sizes and spacings in the inputs are whole
\* numbers and column widths differ by multiples of four, so every float the
\* code computes is a whole number and the KINDA_SMALL_NUMBER tolerances
\* reduce to exact comparisons.
RECURSIVE ApplyRanksLoop(_, _, _)
ApplyRanksLoop(GNodes, WNodes, i) ==
    IF i > Len(GNodes) THEN WNodes
    ELSE LET Node == GNodes[i]
         IN  IF Node.bIsDummy \/ Node.SourceIndex = INDEX_NONE
                \/ Node.SourceIndex \notin Idx(WNodes)
             THEN ApplyRanksLoop(GNodes, WNodes, i + 1)
             ELSE CHOOSE r \in {ApplyRanksLoop(GNodes, w, i + 1) :
                      w \in {[WNodes EXCEPT ![Node.SourceIndex + 1] =
                                [@ EXCEPT !.GlobalRank = Max2(0, Node.Rank),
                                          !.GlobalOrder = Max2(0, Node.Order)]]}} : TRUE

ApplySugiyamaRanks(G, WNodes) ==
    ApplyRanksLoop(G.Nodes,
                   [i \in 1..Len(WNodes) |->
                       [WNodes[i] EXCEPT !.GlobalRank = 0, !.GlobalOrder = 0]] \o <<>>, 1)

\* ResolveNodeSpacingX: <<exec spacing, data spacing>>.
ResolveNodeSpacingX(S) ==
    LET bLegacy == /\ S.NodeSpacingXExec = DefaultNodeSpacingX
                   /\ S.NodeSpacingXData = DefaultNodeSpacingX
                   /\ S.NodeSpacingX # DefaultNodeSpacingX
    IN  IF bLegacy THEN <<Max2(0, S.NodeSpacingX), Max2(0, S.NodeSpacingX)>>
        ELSE <<Max2(0, S.NodeSpacingXExec), Max2(0, S.NodeSpacingXData)>>

PlacementRank(Node) == Max2(0, Node.GlobalRank)

PlacementMaxRank(WNodes) == MaxOfSeq([i \in 1..Len(WNodes) |-> PlacementRank(WNodes[i])])

\* Seeded fault: the column widths are left at their initial 0.
RankWidth_Unset(WNodes, Rank) == 0

RankWidth(WNodes, Rank) ==
    MaxOfSeq(<<0>> \o [i \in 1..Len(WNodes) |->
                         IF PlacementRank(WNodes[i]) = Rank THEN WNodes[i].Size[1] ELSE 0])

RankSpacingX(WNodes, Rank, SpacingXExec, SpacingXData) ==
    LET Raw == MaxOfSeq(<<0>> \o [i \in 1..Len(WNodes) |->
                          IF PlacementRank(WNodes[i]) = Rank
                          THEN (IF WNodes[i].bHasExecPins THEN SpacingXExec ELSE SpacingXData)
                          ELSE 0])
    IN  IF Raw <= 0 THEN Max2(SpacingXExec, SpacingXData) ELSE Raw

RECURSIVE RankXLeft(_, _, _, _)
RankXLeft(WNodes, Rank, SpacingXExec, SpacingXData) ==
    IF Rank = 0 THEN 0
    ELSE RankXLeft(WNodes, Rank - 1, SpacingXExec, SpacingXData)
         + RankWidth(WNodes, Rank - 1)
         + RankSpacingX(WNodes, Rank - 1, SpacingXExec, SpacingXData)

GlobalOrderLess(WNodes, A, B) ==
    IF At(WNodes, A).GlobalOrder # At(WNodes, B).GlobalOrder
    THEN At(WNodes, A).GlobalOrder < At(WNodes, B).GlobalOrder
    ELSE NodeKeyLess(At(WNodes, A).Key, At(WNodes, B).Key)

\* RankNodes of the placement: indices grouped by rank, sorted by order.
PlacementRankNodes(WNodes) ==
    [r \in 1..(PlacementMaxRank(WNodes) + 1) |->
        SortBy(IndicesWhere(Len(WNodes), LAMBDA i : PlacementRank(At(WNodes, i)) = r - 1),
               LAMBDA a, b : GlobalOrderLess(WNodes, a, b))]

IsPreferredExecEdge(WNodes, WEdges, CandidateIndex, CurrentIndex) ==
    IF CurrentIndex = INDEX_NONE THEN TRUE
    ELSE LET Candidate == At(WEdges, CandidateIndex)
             Current == At(WEdges, CurrentIndex)
             DstRank == At(WNodes, Candidate.Dst).GlobalRank
             bCandidateAdjacent == At(WNodes, Candidate.Src).GlobalRank = DstRank - 1
             bCurrentAdjacent == At(WNodes, Current.Src).GlobalRank = DstRank - 1
             CandidateOrder == At(WNodes, Candidate.Src).GlobalOrder
             CurrentOrder == At(WNodes, Current.Src).GlobalOrder
         IN  IF bCandidateAdjacent # bCurrentAdjacent THEN bCandidateAdjacent
             ELSE IF bCandidateAdjacent /\ CandidateOrder # CurrentOrder
             THEN CandidateOrder < CurrentOrder
             ELSE IF Candidate.Src # Current.Src
             THEN NodeKeyLess(At(WNodes, Candidate.Src).Key, At(WNodes, Current.Src).Key)
             ELSE IF Candidate.SrcPinName # Current.SrcPinName
             THEN Candidate.SrcPinName < Current.SrcPinName
             ELSE IF Candidate.SrcPinIndex # Current.SrcPinIndex
             THEN Candidate.SrcPinIndex < Current.SrcPinIndex
             ELSE IF Candidate.DstPinName # Current.DstPinName
             THEN Candidate.DstPinName < Current.DstPinName
             ELSE IF Candidate.DstPinIndex # Current.DstPinIndex
             THEN Candidate.DstPinIndex < Current.DstPinIndex
             ELSE IF Candidate.StableKey # Current.StableKey
             THEN LexCompare(Candidate.StableKey, Current.StableKey) < 0
             ELSE CandidateIndex < CurrentIndex

IsExecConstraintCandidate(WNodes, Edge) ==
    /\ Edge.Kind = EEdgeKind_Exec
    /\ Edge.Src \in Idx(WNodes)
    /\ Edge.Dst \in Idx(WNodes)
    /\ Edge.Src # Edge.Dst

\* ExecConstraintEdgeIndex: per destination the chosen incoming exec edge.
RECURSIVE ExecConstraintEdgeIndex(_, _, _, _)
ExecConstraintEdgeIndex(WNodes, WEdges, EdgeIndex, Chosen) ==
    IF EdgeIndex >= Len(WEdges) THEN Chosen
    ELSE LET Edge == At(WEdges, EdgeIndex)
         IN  IF /\ IsExecConstraintCandidate(WNodes, Edge)
                /\ IsPreferredExecEdge(WNodes, WEdges, EdgeIndex, At(Chosen, Edge.Dst))
             THEN CHOOSE r \in {ExecConstraintEdgeIndex(WNodes, WEdges, EdgeIndex + 1, c) :
                                c \in {[Chosen EXCEPT ![Edge.Dst + 1] = EdgeIndex]}} : TRUE
             ELSE ExecConstraintEdgeIndex(WNodes, WEdges, EdgeIndex + 1, Chosen)

IsPreferredVariableGetDestination(WNodes, Candidate, Current) ==
    IF Current = INDEX_NONE THEN TRUE
    ELSE IF At(WNodes, Candidate).GlobalOrder # At(WNodes, Current).GlobalOrder
    THEN At(WNodes, Candidate).GlobalOrder < At(WNodes, Current).GlobalOrder
    ELSE IF NodeKeyLess(At(WNodes, Candidate).Key, At(WNodes, Current).Key) THEN TRUE
    ELSE IF NodeKeyLess(At(WNodes, Current).Key, At(WNodes, Candidate).Key) THEN FALSE
    ELSE Candidate < Current

IsVariableGetEdge(WNodes, Edge) ==
    /\ Edge.Kind # EEdgeKind_Exec
    /\ Edge.Src \in Idx(WNodes)
    /\ Edge.Dst \in Idx(WNodes)
    /\ Edge.Src # Edge.Dst
    /\ At(WNodes, Edge.Src).bIsVariableGet
    /\ ~At(WNodes, Edge.Dst).bIsVariableGet

\* VariableGetDestinationsByRank[Src]: pairs <<DestRank, Dst>> in the order
\* the ranks were first met.
RECURSIVE VariableGetDestinations(_, _, _, _)
VariableGetDestinations(WNodes, WEdges, Src, Destinations) ==
    IF WEdges = <<>> THEN Destinations
    ELSE LET Edge == Head(WEdges)
             DestRank == At(WNodes, Edge.Dst).GlobalRank
             Slots == {p \in 1..Len(Destinations) : Destinations[p][1] = DestRank}
         IN  IF ~IsVariableGetEdge(WNodes, Edge) \/ Edge.Src # Src
             THEN VariableGetDestinations(WNodes, Tail(WEdges), Src, Destinations)
             ELSE IF Slots = {}
             THEN VariableGetDestinations(WNodes, Tail(WEdges), Src,
                                          Append(Destinations, <<DestRank, Edge.Dst>>))
             ELSE LET RankIndex == CHOOSE p \in Slots : \A q \in Slots : p <= q
                  IN  IF IsPreferredVariableGetDestination(WNodes, Edge.Dst,
                                                           Destinations[RankIndex][2])
                      THEN VariableGetDestinations(WNodes, Tail(WEdges), Src,
                               [Destinations EXCEPT ![RankIndex] = <<DestRank, Edge.Dst>>])
                      ELSE VariableGetDestinations(WNodes, Tail(WEdges), Src, Destinations)

RECURSIVE Flatten(_)
Flatten(ss) == IF ss = <<>> THEN <<>> ELSE Head(ss) \o Flatten(Tail(ss))

Constraint(Source, Target, Delta) == [Source |-> Source, Target |-> Target, Delta |-> Delta]

\* Order constraints within each rank.
OrderConstraints(WNodes, RankNodes, SpacingYExec, SpacingYData) ==
    Flatten([r \in 1..Len(RankNodes) |->
        [k \in 1..Max2(0, Len(RankNodes[r]) - 1) |->
            LET Prev == RankNodes[r][k]
                Curr == RankNodes[r][k + 1]
            IN  Constraint(Prev, Curr,
                           At(WNodes, Prev).Size[2]
                           + (IF At(WNodes, Curr).bHasExecPins THEN SpacingYExec
                                                               ELSE SpacingYData))]])

\* The representative destination with the smallest current Y.
RECURSIVE PickBestDest(_, _, _, _)
PickBestDest(WNodes, YPositions, Destinations, BestDest) ==
    IF Destinations = <<>> THEN BestDest
    ELSE LET DestIndex == Head(Destinations)[2]
             DestY == At(YPositions, DestIndex)
             BestY == At(YPositions, BestDest)
         IN  IF DestIndex \notin Idx(WNodes)
             THEN PickBestDest(WNodes, YPositions, Tail(Destinations), BestDest)
             ELSE IF BestDest = INDEX_NONE \/ DestY < BestY
             THEN PickBestDest(WNodes, YPositions, Tail(Destinations), DestIndex)
             ELSE IF DestY = BestY
             THEN IF At(WNodes, DestIndex).GlobalOrder # At(WNodes, BestDest).GlobalOrder
                  THEN PickBestDest(WNodes, YPositions, Tail(Destinations),
                           IF At(WNodes, DestIndex).GlobalOrder
                              < At(WNodes, BestDest).GlobalOrder
                           THEN DestIndex ELSE BestDest)
                  ELSE PickBestDest(WNodes, YPositions, Tail(Destinations),
                           IF NodeKeyLess(At(WNodes, DestIndex).Key, At(WNodes, BestDest).Key)
                           THEN DestIndex ELSE BestDest)
             ELSE PickBestDest(WNodes, YPositions, Tail(Destinations), BestDest)

\* Variable-get alignment constraints, for layer positions 1 .. Num-1.
VariableGetConstraints(WNodes, WEdges, RankNodes, YPositions) ==
    Flatten([r \in 1..Len(RankNodes) |->
        Flatten([k \in 1..Max2(0, Len(RankNodes[r]) - 1) |->
            LET Layer == RankNodes[r]
                SrcIndex == Layer[k + 1]
                Destinations == VariableGetDestinations(WNodes, WEdges, SrcIndex, <<>>)
                BestDest == PickBestDest(WNodes, YPositions, Destinations, INDEX_NONE)
                bHasExecAfter == \E j \in (k + 2)..Len(Layer) : At(WNodes, Layer[j]).bHasExecPins
            IN  IF \/ ~At(WNodes, SrcIndex).bIsVariableGet
                   \/ Destinations = <<>>
                   \/ BestDest = INDEX_NONE
                   \/ bHasExecAfter
                THEN <<>>
                ELSE <<Constraint(BestDest, SrcIndex, 0)>>])])

\* Exec alignment constraints from the chosen incoming exec edges.
ExecConstraints(WNodes, WEdges) ==
    LET Chosen == ExecConstraintEdgeIndex(WNodes, WEdges, 0,
                                          InitArray(INDEX_NONE, Len(WNodes)))
        Picked == IndicesWhere(Len(WEdges),
                      LAMBDA e : /\ IsExecConstraintCandidate(WNodes, At(WEdges, e))
                                 /\ At(Chosen, At(WEdges, e).Dst) = e)
    IN  [k \in 1..Len(Picked) |->
            Constraint(At(WEdges, Picked[k]).Src, At(WEdges, Picked[k]).Dst, 0)]

RECURSIVE ApplyConstraints(_, _, _)
ApplyConstraints(Constraints, YPositions, bUpdated) ==
    IF Constraints = <<>> THEN [YPositions |-> YPositions, bUpdated |-> bUpdated]
    ELSE LET C == Head(Constraints)
             Candidate == At(YPositions, C.Source) + C.Delta
         IN  IF Candidate > At(YPositions, C.Target)
             THEN CHOOSE r \in {ApplyConstraints(Tail(Constraints), y, TRUE) :
                                y \in {[YPositions EXCEPT ![C.Target + 1] = Candidate]}} : TRUE
             ELSE ApplyConstraints(Tail(Constraints), YPositions, bUpdated)

\* The constraint list of one relaxation pass.
BuildConstraints(WNodes, WEdges, RankNodes, YPositions, Iteration, SpacingYExec, SpacingYData) ==
    LET MaxIterations == Max2(3, Len(WNodes))
    IN  OrderConstraints(WNodes, RankNodes, SpacingYExec, SpacingYData)
        \o (IF Iteration < MaxIterations - 2
            THEN VariableGetConstraints(WNodes, WEdges, RankNodes, YPositions)
                 \o ExecConstraints(WNodes, WEdges)
            ELSE <<>>)

\* The relaxation loop: for (Iteration = 0; Iteration < 4 && bUpdated; ...).
\* Passes records each pass's resulting positions and update flag.
RECURSIVE RelaxLoop(_, _, _, _, _, _, _, _)
RelaxLoop(WNodes, WEdges, RankNodes, SpacingYExec, SpacingYData, Iteration, YPositions, Passes) ==
    IF ~(Iteration < RelaxationPasses
         /\ (Passes = <<>> \/ Passes[Len(Passes)].bUpdated))
    THEN [YPositions |-> YPositions, Passes |-> Passes]
    ELSE CHOOSE res \in
             {RelaxLoop(WNodes, WEdges, RankNodes, SpacingYExec, SpacingYData,
                        Iteration + 1, R.YPositions, Append(Passes, R)) :
                 R \in {ApplyConstraints(cs, YPositions, FALSE) :
                     cs \in {BuildConstraints(WNodes, WEdges, RankNodes, YPositions,
                                              Iteration, SpacingYExec, SpacingYData)}}} : TRUE

GetAlignedOffset(RankAlignment, ColumnWidth, NodeWidth) ==
    LET Extra == Max2(0, ColumnWidth - NodeWidth)
    IN  IF RankAlignment = "Left" THEN 0
        ELSE IF RankAlignment = "Right" THEN Extra
        ELSE Extra \div 2

IsBetterAnchor(WNodes, Candidate, Current) ==
    IF Candidate = INDEX_NONE THEN FALSE
    ELSE IF Current = INDEX_NONE THEN TRUE
    ELSE IF At(WNodes, Candidate).bHasExecPins # At(WNodes, Current).bHasExecPins
    THEN At(WNodes, Candidate).bHasExecPins
    ELSE IF NodeKeyLess(At(WNodes, Candidate).Key, At(WNodes, Current).Key) THEN TRUE
    ELSE IF NodeKeyLess(At(WNodes, Current).Key, At(WNodes, Candidate).Key) THEN FALSE
    ELSE Candidate < Current

RECURSIVE PickAnchor(_, _, _, _)
PickAnchor(WNodes, Index, bOnlyOrigin, AnchorIndex) ==
    IF Index >= Len(WNodes) THEN AnchorIndex
    ELSE IF /\ (bOnlyOrigin =>
                   At(WNodes, Index).GlobalRank = 0 /\ At(WNodes, Index).GlobalOrder = 0)
            /\ IsBetterAnchor(WNodes, Index, AnchorIndex)
    THEN PickAnchor(WNodes, Index + 1, bOnlyOrigin, Index)
    ELSE PickAnchor(WNodes, Index + 1, bOnlyOrigin, AnchorIndex)

\* Seeded fault: the anchor is always the best candidate over all nodes, the
\* pass over the rank 0, order 0 nodes left out.
SelectAnchor_AllNodes(WNodes) == PickAnchor(WNodes, 0, FALSE, INDEX_NONE)

SelectAnchor(WNodes) ==
    LET First == PickAnchor(WNodes, 0, TRUE, INDEX_NONE)
    IN  IF First = INDEX_NONE THEN PickAnchor(WNodes, 0, FALSE, INDEX_NONE) ELSE First

\* PlaceGlobalRankOrderCompact: FGlobalPlacement, with the relaxation passes
\* kept alongside.
PlaceGlobalRankOrderCompact(WNodes, WEdges, SpacingXExecIn, SpacingXDataIn, SpacingYExecIn, SpacingYDataIn, RankAlignment) ==
    IF WNodes = <<>>
    THEN [Positions |-> EmptyMap, AnchorNodeIndex |-> INDEX_NONE, Passes |-> <<>>]
    ELSE LET SpacingXExec == Max2(0, SpacingXExecIn)
             SpacingXData == Max2(0, SpacingXDataIn)
             SpacingYExec == Max2(0, SpacingYExecIn)
             SpacingYData == Max2(0, SpacingYDataIn)
             RankNodes == PlacementRankNodes(WNodes)
             Relaxed == RelaxLoop(WNodes, WEdges, RankNodes, SpacingYExec, SpacingYData,
                                  0, InitArray(0, Len(WNodes)), <<>>)
         IN  [Positions |->
                 [Index \in Idx(WNodes) |->
                     LET Node == At(WNodes, Index)
                         Rank == PlacementRank(Node)
                     IN  <<RankXLeft(WNodes, Rank, SpacingXExec, SpacingXData)
                           + GetAlignedOffset(RankAlignment, RankWidth(WNodes, Rank),
                                              Node.Size[1]),
                           At(Relaxed.YPositions, Index)>>],
              AnchorNodeIndex |-> SelectAnchor(WNodes),
              Passes |-> Relaxed.Passes]

\* ComputeGlobalAnchorOffset (Private/Graph/GraphLayoutPlacement.cpp).
ComputeGlobalAnchorOffset(WNodes, Placement) ==
    IF Placement.AnchorNodeIndex = INDEX_NONE THEN <<0, 0>>
    ELSE IF Placement.AnchorNodeIndex \notin DOMAIN Placement.Positions THEN <<0, 0>>
    ELSE IF Placement.AnchorNodeIndex \notin Idx(WNodes) THEN <<0, 0>>
    ELSE LET AnchorPos == Placement.Positions[Placement.AnchorNodeIndex]
             Original == At(WNodes, Placement.AnchorNodeIndex).Position
         IN  <<Original[1] - AnchorPos[1], Original[2] - AnchorPos[2]>>

\* Seeded fault: the result keyed by the working node's rank.
PositionKey_Rank(Node) == Node.GlobalRank

\* The key of a node's entry in OutResult.NodePositions.
PositionKey(Node) == Node.Id

\* ApplyFinalPositions with an empty primary map: the secondary positions
\* are added in the order they were inserted, i.e. by node index.
RECURSIVE ApplyFinalPositions(_, _, _, _, _)
ApplyFinalPositions(Positions, AnchorOffset, WNodes, NodeIndex, Result) ==
    IF NodeIndex >= Len(WNodes) THEN Result
    ELSE IF NodeIndex \notin DOMAIN Positions
    THEN ApplyFinalPositions(Positions, AnchorOffset, WNodes, NodeIndex + 1, Result)
    ELSE LET Pos == <<Positions[NodeIndex][1] + AnchorOffset[1],
                      Positions[NodeIndex][2] + AnchorOffset[2]>>
             Node == At(WNodes, NodeIndex)
         IN  CHOOSE r \in
                 {ApplyFinalPositions(Positions, AnchorOffset, WNodes, NodeIndex + 1, res) :
                     res \in {[NodePositions |-> MapAdd(Result.NodePositions, PositionKey(Node), Pos),
                               Bounds |-> BoxAdd(Result.Bounds, Pos,
                                                 <<Pos[1] + Node.Size[1],
                                                   Pos[2] + Node.Size[2]>>)]}} : TRUE

\* ------------------------------------------------------------------------
\* The inputs LayoutComponent is called with
\* ------------------------------------------------------------------------
\* Candidate edge c of an n-node graph: source c \div 2n, destination
\* (c \div 2) % n, exec edge when c is odd.
CandSrc(n, c) == c \div (2 * n)
CandDst(n, c) == (c \div 2) % n
CandExec(c) == c % 2 = 1

ValidCandidates(n, shapes) ==
    {c \in 0..(2 * n * n - 1) :
        /\ CandSrc(n, c) # CandDst(n, c)
        /\ At(shapes, CandDst(n, c)) # "V"
        /\ CandExec(c) => (At(shapes, CandSrc(n, c)) = "E" /\ At(shapes, CandDst(n, c)) = "E")}

EdgeSeqOf(n, shapes, cands) ==
    LET L == SetToSortedSeq(cands)
    IN  [i \in 1..Len(L) |-> LayoutEdge(CandSrc(n, L[i]), CandDst(n, L[i]), shapes, CandExec(L[i]))]

\* The graph whose node array lists the ids in the given order.
GraphOf(n, shapes, cands, order) ==
    [Nodes |-> [i \in 1..n |-> LayoutNode(order[i], At(shapes, order[i]))],
     Edges |-> EdgeSeqOf(n, shapes, cands)]

IdentityOrder(n) == [i \in 1..n |-> i - 1]

CandidateSets(n, shapes) ==
    {S \in SUBSET ValidCandidates(n, shapes) : Cardinality(S) <= MaxEdges}

InputOf(n, shapes, cands, order, ids, vgml) ==
    [Graph |-> GraphOf(n, shapes, cands, order),
     ComponentNodeIds |-> ids,
     Settings |-> LayoutSettings(vgml, "Center")]

\* The variable-get minimum lengths tried: the default, and 0 where the
\* component has a variable-get node for it to act on.
MinLengthsFor(shapes) ==
    IF \E i \in 1..Len(shapes) : shapes[i] = "V"
    THEN {0, DefaultVariableGetMinLength}
    ELSE {DefaultVariableGetMinLength}

\* Whole components of three nodes: every shape of node, every edge set of
\* at most MaxEdges edges.
ComponentInputs ==
    UNION {{InputOf(3, shapes, cands, IdentityOrder(3), IdentityOrder(3), vgml) :
               cands \in CandidateSets(3, shapes), vgml \in MinLengthsFor(shapes)} :
           shapes \in [1..3 -> NodeShapes]}

\* Graphs of zero to two control-flow nodes with at most two edges, in both
\* node-array orders, asked for every id list of length at most two over the
\* ids 0..2 (empty lists, repeated ids, ids the graph does not have).
SmallOrders(n) == IF n = 2 THEN {<<0, 1>>, <<1, 0>>} ELSE {IdentityOrder(n)}

IdLists == {<<>>} \cup {<<a>> : a \in 0..2} \cup {<<a, b>> : a \in 0..2, b \in 0..2}

RequestInputs ==
    UNION {UNION {{InputOf(n, [i \in 1..n |-> "E"], cands, order, ids, 1) :
                      cands \in {S \in CandidateSets(n, [i \in 1..n |-> "E"]) :
                                     Cardinality(S) <= 2},
                      ids \in IdLists} :
                  order \in SmallOrders(n)} :
           n \in 0..2}

\* Components of four nodes, three control-flow nodes and a variable-get
\* node, whose edges are drawn from a pool holding an exec chain 0 -> 1 -> 2,
\* the exec edge 2 -> 0 closing it, the data edges 0 -> 2 and 1 -> 0 and the
\* variable-get edge 3 -> 2; at most MaxEdges + 1 of them.
ChainShapes == <<"E", "E", "E", "V">>

ChainPool == {3, 13, 17, 4, 8, 28}

ChainInputs ==
    {InputOf(4, ChainShapes, cands, IdentityOrder(4), IdentityOrder(4), vgml) :
        cands \in {S \in SUBSET ChainPool : Cardinality(S) <= MaxEdges + 1},
        vgml \in {0, 1}}

\* The diamond 0 -> 1, 0 -> 2, 1 -> 3, 2 -> 3 of control-flow nodes whose
\* node 3 is a data consumer (no exec pins) fed by data edges, with or
\* without the data edges 1 -> 2 and 0 -> 3.
FanInShapes == <<"E", "E", "E", "D">>

FanInDiamond == {3, 5, 14, 22}

FanInExtras == {12, 6}

FanInInputs ==
    {InputOf(4, FanInShapes, FanInDiamond \cup extra, IdentityOrder(4), IdentityOrder(4),
             DefaultVariableGetMinLength) :
        extra \in SUBSET FanInExtras}

\* Six control-flow nodes: the exec diamond 0 -> 1, 0 -> 2, 1 -> 3, 2 -> 3
\* followed by the exec chain 3 -> 4 -> 5, one exec back edge (1 -> 0, 2 -> 0,
\* 3 -> 0, 5 -> 0, 4 -> 1, 5 -> 3 or 5 -> 2) and at most one of the data edges
\* 1 -> 4, 2 -> 4, 1 -> 5, 2 -> 5.
SixShapes == <<"E", "E", "E", "E", "E", "E">>

SixDiamond == {3, 5, 19, 31, 45, 59}

SixBackEdges == {13, 25, 37, 61, 51, 67, 65}

SixDataEdges == {20, 32, 22, 34}

SixInputs ==
    {InputOf(6, SixShapes, SixDiamond \cup {back} \cup data, IdentityOrder(6),
             IdentityOrder(6), DefaultVariableGetMinLength) :
        back \in SixBackEdges,
        data \in {D \in SUBSET SixDataEdges : Cardinality(D) <= 1}}

\* Part of a graph: three control-flow nodes, at most two of the nine exec
\* edges between them (self-loops included), and a component of two of the
\* three nodes.
PartEdges == {c \in 0..17 : CandExec(c)}

PartInputs ==
    {InputOf(3, <<"E", "E", "E">>, cands, IdentityOrder(3), ids,
             DefaultVariableGetMinLength) :
        cands \in {S \in SUBSET PartEdges : Cardinality(S) <= 2},
        ids \in {<<0, 1>>, <<1, 2>>, <<2, 0>>}}

\* Horizontal spacing settings: a data node, two control-flow nodes, any of
\* the data edges 0 -> 1, 0 -> 2 and the exec edge 1 -> 2, left-aligned
\* columns and every pairing of the exec spacings 0 and 48 with the data
\* spacings 0 and 32.
SpacingShapes == <<"D", "E", "E">>

SpacingPool == {2, 4, 11}

SpacingsXExec == {0, 48}

SpacingsXData == {0, 32}

SpacedSettings(xexec, xdata) ==
    [LayoutSettings(DefaultVariableGetMinLength, "Left")
        EXCEPT !.NodeSpacingXExec = xexec, !.NodeSpacingXData = xdata]

SpacingInputs ==
    {[InputOf(3, SpacingShapes, cands, IdentityOrder(3), IdentityOrder(3),
              DefaultVariableGetMinLength)
         EXCEPT !.Settings = SpacedSettings(xexec, xdata)] :
        cands \in SUBSET SpacingPool, xexec \in SpacingsXExec, xdata \in SpacingsXData}

\* Pin counts that differ between the sides: two splitters and a data node,
\* any of the data edges 0 -> 1, 1 -> 0 (closing a cycle), 0 -> 2 and 1 -> 2.
PinShapes == <<"S", "S", "D">>

PinPool == {2, 6, 4, 10}

PinInputs ==
    {InputOf(3, PinShapes, cands, IdentityOrder(3), IdentityOrder(3),
             DefaultVariableGetMinLength) :
        cands \in SUBSET PinPool}

\* Variable-gets sharing a rank with their consumer: a control-flow node, a
\* data node and two member variable-gets, any of the data edges 0 -> 1,
\* 2 -> 1, 3 -> 1 and 3 -> 2, and the variable-get minimum length 0.
GroupShapes == <<"E", "D", "W", "W">>

GroupPool == {2, 18, 26, 28}

GroupInputs ==
    {InputOf(4, GroupShapes, cands, IdentityOrder(4), IdentityOrder(4), 0) :
        cands \in SUBSET GroupPool}

\* Three control-flow nodes in overlapping cycles: four or five of the exec
\* edges 0 -> 1, 1 -> 0, 2 -> 0 and the data edges 1 -> 0, 1 -> 2.
TangleShapes == <<"E", "E", "E">>

TanglePool == {3, 7, 13, 6, 10}

TangleInputs ==
    {InputOf(3, TangleShapes, cands, IdentityOrder(3), IdentityOrder(3),
             DefaultVariableGetMinLength) :
        cands \in {S \in SUBSET TanglePool : Cardinality(S) >= 4}}

Inputs ==
    ComponentInputs \cup RequestInputs \cup ChainInputs \cup FanInInputs
        \cup SixInputs \cup PartInputs \cup SpacingInputs \cup PinInputs
        \cup GroupInputs \cup TangleInputs

\* A result object left over from an earlier call.
StaleResult == [NodePositions |-> [id \in {7} |-> <<1, 1>>],
                Bounds |-> << <<1, 1>>, <<3, 3>> >>]

\* ------------------------------------------------------------------------
\* State
\* ------------------------------------------------------------------------
VARIABLES
    Graph,             \* the caller's FLayoutGraph
    ComponentNodeIds,  \* the requested id list
    Settings,          \* the caller's FLayoutSettings
    OutResult,         \* the caller's FLayoutComponentResult
    OutError,          \* the caller's error string
    pc,                \* the position within LayoutComponent / RunSugiyama
    Nodes,             \* working nodes
    Edges,             \* working edges
    SugiyamaGraph,     \* the FSugiyamaGraph being laid out
    Flipped,           \* edge indices reversed by RemoveCycles, in order
    Layering,          \* intermediate results of AssignLayers
    MaxRank,           \* the MaxRank local of RunSugiyama
    RankNodes,         \* the per-rank node lists of RunSugiyama
    Sweep,             \* the sweep counter of RunCrossingReduction
    GlobalPlacement,   \* the FGlobalPlacement of PlaceGlobalRankOrderCompact
    AnchorOffset,      \* the offset of ComputeGlobalAnchorOffset
    Run,               \* 1 in the first call, 2 in the repeated call
    FirstRun           \* what the first call was given and what it returned

vars == <<Graph, ComponentNodeIds, Settings, OutResult, OutError, pc, Nodes, Edges,
          SugiyamaGraph, Flipped, Layering, MaxRank, RankNodes, Sweep,
          GlobalPlacement, AnchorOffset, Run, FirstRun>>

inputVars == <<Graph, ComponentNodeIds, Settings>>

outVars == <<OutResult, OutError>>

workVars == <<Nodes, Edges>>

sugiyamaVars == <<SugiyamaGraph, Flipped, Layering, MaxRank, RankNodes, Sweep>>

placeVars == <<GlobalPlacement, AnchorOffset>>

runVars == <<Run, FirstRun>>

NoLayering == [TopoOrder |-> <<>>, bUseMaxLenConstraints |-> FALSE, Forward |-> <<>>,
               History |-> <<>>, RankBase |-> <<>>]

NoPlacement == [Positions |-> EmptyMap, AnchorNodeIndex |-> INDEX_NONE, Passes |-> <<>>]

NoFirstRun == [Graph |-> EmptySugiyamaGraph, ComponentNodeIds |-> <<>>,
               pc |-> "", OutResult |-> EmptyResult, OutError |-> ""]

\* The locals of a call before it starts.
FreshLocals ==
    /\ Nodes = <<>>
    /\ Edges = <<>>
    /\ SugiyamaGraph = EmptySugiyamaGraph
    /\ Flipped = <<>>
    /\ Layering = NoLayering
    /\ MaxRank = 0
    /\ RankNodes = <<>>
    /\ Sweep = 0
    /\ GlobalPlacement = NoPlacement
    /\ AnchorOffset = <<0, 0>>

InitWith(in) ==
    /\ Graph = in.Graph
    /\ ComponentNodeIds = in.ComponentNodeIds
    /\ Settings = in.Settings
    /\ OutResult \in {EmptyResult, StaleResult}
    /\ OutError = ""
    /\ pc = "LayoutComponent"
    /\ FreshLocals
    /\ Run = 1
    /\ FirstRun = NoFirstRun

Init == \E in \in Inputs : InitWith(in)

\* ------------------------------------------------------------------------
\* LayoutComponent, entry to BuildSugiyamaGraph (unnamed/part_005)
\* ------------------------------------------------------------------------
\* TryHandleSingleNode: the result for a lone working node.
SingleNodeResult(Solo) ==
    [NodePositions |-> MapAdd(EmptyMap, Solo.Id, Solo.Position),
     Bounds |-> BoxAdd(<<>>, Solo.Position,
                       <<Solo.Position[1] + Solo.Size[1], Solo.Position[2] + Solo.Size[2]>>)]

\* Seeded fault: the failure paths without the reset of the result.
LayoutComponent_ReturnFalse_KeepResult ==
    /\ pc = "LayoutComponent"
    /\ LET R == BuildWorkNodes(Graph, ComponentNodeIds)
       IN  IF ComponentNodeIds = <<>>
           THEN OutError' = "Layout component is empty."
           ELSE /\ ~R.crashed
                /\ ~R.ok
                /\ OutError' = R.Error
    /\ pc' = "ReturnFalse"
    /\ UNCHANGED <<inputVars, OutResult, workVars, sugiyamaVars, placeVars, runVars>>

\* The result is reset; then the component is empty, or BuildWorkNodes
\* reports a missing node id: the error is written and false is returned.
LayoutComponent_ReturnFalse ==
    /\ pc = "LayoutComponent"
    /\ LET R == BuildWorkNodes(Graph, ComponentNodeIds)
       IN  IF ComponentNodeIds = <<>>
           THEN OutError' = "Layout component is empty."
           ELSE /\ ~R.crashed
                /\ ~R.ok
                /\ OutError' = R.Error
    /\ OutResult' = EmptyResult
    /\ pc' = "ReturnFalse"
    /\ UNCHANGED <<inputVars, workVars, sugiyamaVars, placeVars, runVars>>

\* BuildWorkNodes indexes Graph.Nodes out of range: the range check aborts.
LayoutComponent_Abort ==
    /\ pc = "LayoutComponent"
    /\ ComponentNodeIds # <<>>
    /\ BuildWorkNodes(Graph, ComponentNodeIds).crashed
    /\ OutResult' = EmptyResult
    /\ pc' = "Aborted"
    /\ UNCHANGED <<inputVars, OutError, workVars, sugiyamaVars, placeVars, runVars>>

\* The single-node fast path: return true with the lone node's position.
LayoutComponent_SingleNode ==
    /\ pc = "LayoutComponent"
    /\ ComponentNodeIds # <<>>
    /\ LET R == BuildWorkNodes(Graph, ComponentNodeIds)
       IN  /\ ~R.crashed
           /\ R.ok
           /\ Len(R.Nodes) = 1
           /\ Nodes' = R.Nodes
           /\ OutResult' = SingleNodeResult(R.Nodes[1])
    /\ pc' = "ReturnTrue"
    /\ UNCHANGED <<inputVars, OutError, Edges, sugiyamaVars, placeVars, runVars>>

\* Two or more working nodes: build the working edges and the Sugiyama graph
\* and enter RunSugiyama.
LayoutComponent_Build ==
    /\ pc = "LayoutComponent"
    /\ ComponentNodeIds # <<>>
    /\ LET R == BuildWorkNodes(Graph, ComponentNodeIds)
       IN  /\ ~R.crashed
           /\ R.ok
           /\ Len(R.Nodes) # 1
           /\ Nodes' = R.Nodes
           /\ Edges' = BuildWorkEdges(Graph, R.Nodes, R.LocalIdToIndex)
           /\ SugiyamaGraph' = BuildSugiyamaGraph(R.Nodes,
                                    BuildWorkEdges(Graph, R.Nodes, R.LocalIdToIndex))
    /\ OutResult' = EmptyResult
    /\ pc' = "RemoveCycles"
    /\ UNCHANGED <<inputVars, OutError, Flipped, Layering, MaxRank, RankNodes, Sweep,
                   placeVars, runVars>>

\* ------------------------------------------------------------------------
\* RunSugiyama, one action per pass (unnamed/part_005, unnamed/part_006)
\* ------------------------------------------------------------------------
\* One round of the RemoveCycles loop that finds a back edge: flip the
\* smallest one and start over.
RemoveCycles_Flip ==
    /\ pc = "RemoveCycles"
    /\ ~RemoveCyclesSkips(SugiyamaGraph)
    /\ \E BackEdges \in {FindBackEdges(SugiyamaGraph)} :
          /\ BackEdges # <<>>
          /\ \E BestEdge \in {PickBestEdge(SugiyamaGraph, BackEdges, BackEdges[1])} :
                /\ SugiyamaGraph' = FlipEdge(SugiyamaGraph, BestEdge)
                /\ Flipped' = IF Len(Flipped) < MaxFlipsLogged
                              THEN Append(Flipped, BestEdge) ELSE Flipped
    /\ UNCHANGED <<inputVars, outVars, pc, workVars, Layering, MaxRank, RankNodes, Sweep,
                   placeVars, runVars>>

\* Seeded fault: RemoveCycles also returns after a flip, without another
\* DFS pass.
RemoveCycles_Done_AfterFlip ==
    /\ pc = "RemoveCycles"
    /\ \/ RemoveCyclesSkips(SugiyamaGraph)
       \/ Flipped # <<>>
       \/ FindBackEdges(SugiyamaGraph) = <<>>
    /\ pc' = "ApplyEdgeDirections"
    /\ UNCHANGED <<inputVars, outVars, workVars, sugiyamaVars, placeVars, runVars>>

\* RemoveCycles returns: nothing to do, or a DFS pass without back edges.
RemoveCycles_Done ==
    /\ pc = "RemoveCycles"
    /\ RemoveCyclesSkips(SugiyamaGraph) \/ FindBackEdges(SugiyamaGraph) = <<>>
    /\ pc' = "ApplyEdgeDirections"
    /\ UNCHANGED <<inputVars, outVars, workVars, sugiyamaVars, placeVars, runVars>>

\* ApplyEdgeDirections followed by UpdateEdgeMinLengths.
ApplyEdgeDirections_Step ==
    /\ pc = "ApplyEdgeDirections"
    /\ SugiyamaGraph' = UpdateEdgeMinLengths(ApplyEdgeDirections(SugiyamaGraph),
                                              Max2(0, Settings.VariableGetMinLength))
    /\ pc' = "AssignLayers"
    /\ UNCHANGED <<inputVars, outVars, workVars, Flipped, Layering, MaxRank, RankNodes,
                   Sweep, placeVars, runVars>>

AssignLayers_Step ==
    /\ pc = "AssignLayers"
    /\ LET R == AssignLayersRun(SugiyamaGraph)
       IN  /\ Layering' = R
           /\ SugiyamaGraph' = AssignLayers(SugiyamaGraph, R.RankBase)
           /\ MaxRank' = MaxOfSeq(R.RankBase)
    /\ pc' = "AddTerminalExecTailNodes"
    /\ UNCHANGED <<inputVars, outVars, workVars, Flipped, RankNodes, Sweep, placeVars,
                   runVars>>

AddTerminalExecTailNodes_Step ==
    /\ pc = "AddTerminalExecTailNodes"
    /\ SugiyamaGraph' = AddTerminalExecTailNodes(SugiyamaGraph, MaxRank)
    /\ pc' = "SplitLongEdges"
    /\ UNCHANGED <<inputVars, outVars, workVars, Flipped, Layering, MaxRank, RankNodes,
                   Sweep, placeVars, runVars>>

\* SplitLongEdges, then MaxRank is raised to the largest node rank.
SplitLongEdges_Step ==
    /\ pc = "SplitLongEdges"
    /\ SugiyamaGraph' = SplitLongEdges(SugiyamaGraph)
    /\ MaxRank' = MaxNodeRank(SplitLongEdges(SugiyamaGraph), MaxRank)
    /\ pc' = "AssignInitialOrder"
    /\ UNCHANGED <<inputVars, outVars, workVars, Flipped, Layering, RankNodes, Sweep,
                   placeVars, runVars>>

AssignInitialOrder_Step ==
    /\ pc = "AssignInitialOrder"
    /\ LET R == AssignInitialOrder(SugiyamaGraph, MaxRank)
       IN  /\ SugiyamaGraph' = R.Graph
           /\ RankNodes' = R.RankNodes
    /\ Sweep' = 0
    /\ pc' = "RunCrossingReduction"
    /\ UNCHANGED <<inputVars, outVars, workVars, Flipped, Layering, MaxRank, placeVars,
                   runVars>>

\* One iteration of the sweep loop of RunCrossingReduction.
RunCrossingReduction_Sweep ==
    /\ pc = "RunCrossingReduction"
    /\ ~CrossingReductionSkips(MaxRank, kSugiyamaSweeps)
    /\ Sweep < kSugiyamaSweeps
    /\ LET R == CrossingSweep(SugiyamaGraph, RankNodes, MaxRank, Sweep, kSugiyamaSweeps)
       IN  /\ SugiyamaGraph' = R.Graph
           /\ RankNodes' = R.RankNodes
    /\ Sweep' = Sweep + 1
    /\ UNCHANGED <<inputVars, outVars, pc, workVars, Flipped, Layering, MaxRank,
                   placeVars, runVars>>

\* RunCrossingReduction returns: at once on a flat graph, otherwise after
\* the sweeps and ApplyMinLenZeroOrdering.  RunSugiyama returns with it.
RunCrossingReduction_Done ==
    /\ pc = "RunCrossingReduction"
    /\ IF CrossingReductionSkips(MaxRank, kSugiyamaSweeps)
       THEN UNCHANGED <<SugiyamaGraph, RankNodes>>
       ELSE /\ Sweep = kSugiyamaSweeps
            /\ LET R == ApplyMinLenZeroOrdering(SugiyamaGraph, RankNodes)
               IN  /\ SugiyamaGraph' = R.Graph
                   /\ RankNodes' = R.RankNodes
    /\ pc' = "ApplySugiyamaRanks"
    /\ UNCHANGED <<inputVars, outVars, workVars, Flipped, Layering, MaxRank, Sweep,
                   placeVars, runVars>>

\* ------------------------------------------------------------------------
\* LayoutComponent, from ApplySugiyamaRanks to the return (unnamed/part_005)
\* ------------------------------------------------------------------------
\* Seeded fault: the ranks and orders are written into the caller's nodes
\* as well.
ApplySugiyamaRanks_Step_InPlace ==
    /\ pc = "ApplySugiyamaRanks"
    /\ Nodes' = ApplySugiyamaRanks(SugiyamaGraph, Nodes)
    /\ Graph' = [Graph EXCEPT !.Nodes = ApplySugiyamaRanks(SugiyamaGraph, Graph.Nodes)]
    /\ pc' = "PlaceGlobalRankOrderCompact"
    /\ UNCHANGED <<ComponentNodeIds, Settings, outVars, Edges, sugiyamaVars, placeVars,
                   runVars>>

ApplySugiyamaRanks_Step ==
    /\ pc = "ApplySugiyamaRanks"
    /\ Nodes' = ApplySugiyamaRanks(SugiyamaGraph, Nodes)
    /\ pc' = "PlaceGlobalRankOrderCompact"
    /\ UNCHANGED <<inputVars, outVars, Edges, sugiyamaVars, placeVars, runVars>>

PlaceGlobalRankOrderCompact_Step ==
    /\ pc = "PlaceGlobalRankOrderCompact"
    /\ GlobalPlacement' =
           PlaceGlobalRankOrderCompact(Nodes, Edges,
               ResolveNodeSpacingX(Settings)[1], ResolveNodeSpacingX(Settings)[2],
               Max2(0, Settings.NodeSpacingYExec), Max2(0, Settings.NodeSpacingYData),
               Settings.RankAlignment)
    /\ pc' = "ApplyFinalPositions"
    /\ UNCHANGED <<inputVars, outVars, workVars, sugiyamaVars, AnchorOffset, runVars>>

\* ComputeGlobalAnchorOffset and ApplyFinalPositions; LayoutComponent
\* returns true.
ApplyFinalPositions_Step ==
    /\ pc = "ApplyFinalPositions"
    /\ AnchorOffset' = ComputeGlobalAnchorOffset(Nodes, GlobalPlacement)
    /\ OutResult' = ApplyFinalPositions(GlobalPlacement.Positions,
                                        ComputeGlobalAnchorOffset(Nodes, GlobalPlacement),
                                        Nodes, 0, OutResult)
    /\ pc' = "ReturnTrue"
    /\ UNCHANGED <<inputVars, OutError, workVars, sugiyamaVars, GlobalPlacement, runVars>>

\* ------------------------------------------------------------------------
\* The caller repeats the call
\* ------------------------------------------------------------------------
\* The same logical input with one of its three arrays listed backwards.
Rearranged(what) ==
    [Graph |-> [Nodes |-> IF what = "Nodes" THEN Reverse(Graph.Nodes) ELSE Graph.Nodes,
                Edges |-> IF what = "Edges" THEN Reverse(Graph.Edges) ELSE Graph.Edges],
     ComponentNodeIds |-> IF what = "Ids" THEN Reverse(ComponentNodeIds)
                          ELSE ComponentNodeIds]

\* After a call on one of the small request graphs has returned, the caller
\* calls LayoutComponent again with the same result object and the same
\* graph, id set and settings, one array rearranged.
LayoutComponent_Again ==
    /\ pc \in {"ReturnTrue", "ReturnFalse"}
    /\ Run = 1
    /\ \E in \in RequestInputs : in.Graph = Graph /\ in.ComponentNodeIds = ComponentNodeIds
    /\ \E what \in {"Nodes", "Edges", "Ids"} :
          /\ Rearranged(what) # [Graph |-> Graph, ComponentNodeIds |-> ComponentNodeIds]
          /\ Graph' = Rearranged(what).Graph
          /\ ComponentNodeIds' = Rearranged(what).ComponentNodeIds
    /\ FirstRun' = [Graph |-> Graph, ComponentNodeIds |-> ComponentNodeIds, pc |-> pc,
                    OutResult |-> OutResult, OutError |-> OutError]
    /\ Run' = 2
    /\ pc' = "LayoutComponent"
    /\ Nodes' = <<>>
    /\ Edges' = <<>>
    /\ SugiyamaGraph' = EmptySugiyamaGraph
    /\ Flipped' = <<>>
    /\ Layering' = NoLayering
    /\ MaxRank' = 0
    /\ RankNodes' = <<>>
    /\ Sweep' = 0
    /\ GlobalPlacement' = NoPlacement
    /\ AnchorOffset' = <<0, 0>>
    /\ UNCHANGED <<Settings, outVars>>

\* After a call has returned true, the caller calls LayoutComponent with
\* the same result object, which now holds positions, and an empty id list.
LayoutComponent_AgainEmpty ==
    /\ pc = "ReturnTrue"
    /\ Run = 1
    /\ ComponentNodeIds' = <<>>
    /\ FirstRun' = [Graph |-> Graph, ComponentNodeIds |-> ComponentNodeIds, pc |-> pc,
                    OutResult |-> OutResult, OutError |-> OutError]
    /\ Run' = 2
    /\ pc' = "LayoutComponent"
    /\ Nodes' = <<>>
    /\ Edges' = <<>>
    /\ SugiyamaGraph' = EmptySugiyamaGraph
    /\ Flipped' = <<>>
    /\ Layering' = NoLayering
    /\ MaxRank' = 0
    /\ RankNodes' = <<>>
    /\ Sweep' = 0
    /\ GlobalPlacement' = NoPlacement
    /\ AnchorOffset' = <<0, 0>>
    /\ UNCHANGED <<Graph, Settings, outVars>>

\* The steps of LayoutComponent itself.
Step ==
    \/ LayoutComponent_ReturnFalse
    \/ LayoutComponent_Abort
    \/ LayoutComponent_SingleNode
    \/ LayoutComponent_Build
    \/ RemoveCycles_Flip
    \/ RemoveCycles_Done
    \/ ApplyEdgeDirections_Step
    \/ AssignLayers_Step
    \/ AddTerminalExecTailNodes_Step
    \/ SplitLongEdges_Step
    \/ AssignInitialOrder_Step
    \/ RunCrossingReduction_Sweep
    \/ RunCrossingReduction_Done
    \/ ApplySugiyamaRanks_Step
    \/ PlaceGlobalRankOrderCompact_Step
    \/ ApplyFinalPositions_Step

Next ==
    \/ Step
    \/ LayoutComponent_Again
    \/ LayoutComponent_AgainEmpty

Spec == Init /\ [][Next]_vars

\* LayoutComponent is sequential code: a call inside the RemoveCycles loop
\* takes the loop's next step.
FairSpec == Spec /\ WF_vars(RemoveCycles_Flip \/ RemoveCycles_Done)

\* ------------------------------------------------------------------------
\* Vocabulary of the properties
\* ------------------------------------------------------------------------
GraphIds == {At(Graph.Nodes, i).Id : i \in Idx(Graph.Nodes)}

RequestedIds == {ComponentNodeIds[i] : i \in 1..Len(ComponentNodeIds)}

AllIdsPresent == RequestedIds \subseteq GraphIds

\* The call is over: it returned true or false, or the process was aborted.
CallEnded == pc \in {"ReturnTrue", "ReturnFalse", "Aborted"}

\* The position the caller gave the graph node with this id.
OriginalPosition(id) ==
    At(Graph.Nodes, CHOOSE i \in Idx(Graph.Nodes) : At(Graph.Nodes, i).Id = id).Position

\* The rank span of an edge of the Sugiyama graph.
RankSpan(E) == At(SugiyamaGraph.Nodes, E.Dst).Rank - At(SugiyamaGraph.Nodes, E.Src).Rank

SugiyamaEdges == {SugiyamaGraph.Edges[i] : i \in 1..Len(SugiyamaGraph.Edges)}

SugiyamaNodes == {SugiyamaGraph.Nodes[i] : i \in 1..Len(SugiyamaGraph.Nodes)}

\* SplitLongEdges has run and the Sugiyama graph still holds its outcome.
SplitDone == pc \in {"AssignInitialOrder", "RunCrossingReduction", "ApplySugiyamaRanks",
                     "PlaceGlobalRankOrderCompact", "ApplyFinalPositions", "ReturnTrue"}
             /\ SugiyamaGraph # EmptySugiyamaGraph

\* An edge with a synthetic end: a dummy-chain segment or an exec-tail edge.
HasSyntheticEnd(E) ==
    At(SugiyamaGraph.Nodes, E.Src).bIsDummy \/ At(SugiyamaGraph.Nodes, E.Dst).bIsDummy

\* The nodes reached from the set S along effective edge directions in one
\* or more steps (at most Rounds more rounds of closure).
RECURSIVE EffectiveReach(_, _, _)
EffectiveReach(G, S, Rounds) ==
    LET Succ == {EffDst(G.Edges[i]) : i \in {j \in 1..Len(G.Edges) : EffSrc(G.Edges[j]) \in S}}
    IN  IF Rounds = 0 \/ Succ \subseteq S THEN S \cup Succ
        ELSE EffectiveReach(G, S \cup Succ, Rounds - 1)

EffectiveSuccessors(G, n) ==
    {EffDst(G.Edges[i]) : i \in {j \in 1..Len(G.Edges) : EffSrc(G.Edges[j]) = n}}

HasDirectedCycle(G) ==
    \E n \in Idx(G.Nodes) :
        /\ EffectiveSuccessors(G, n) # {}
        /\ n \in EffectiveReach(G, EffectiveSuccessors(G, n), Len(G.Nodes))

\* The per-rank orders RunCrossingReduction ends with when it is run with
\* NumSweeps sweeps on the ranked graph of the current call (AssignInitialOrder
\* reads ranks, pins and keys only, so it rebuilds the order the sweeps
\* started from).
OrdersAfter(NumSweeps) ==
    LET Start == AssignInitialOrder(SugiyamaGraph, MaxRank)
    IN  RunCrossingReduction(Start.Graph, Start.RankNodes, MaxRank, NumSweeps).RankNodes

VecAdd(a, b) == <<a[1] + b[1], a[2] + b[2]>>

VecSub(a, b) == <<a[1] - b[1], a[2] - b[2]>>

\* AssignLayers has run and the Sugiyama graph still holds its ranks.
Layered == pc \in {"AddTerminalExecTailNodes", "SplitLongEdges"} \/ SplitDone

\* The caller's graph is two control-flow nodes joined by the exec edges
\* A -> B and B -> A, and both nodes are requested.
TwoCycleScenario ==
    /\ Len(Graph.Nodes) = 2
    /\ Cardinality(GraphIds) = 2
    /\ RequestedIds = GraphIds
    /\ \A i \in Idx(Graph.Nodes) : At(Graph.Nodes, i).bHasExecPins
    /\ Len(Graph.Edges) = 2
    /\ \A i \in 1..2 : Graph.Edges[i].Kind = EEdgeKind_Exec
    /\ Graph.Edges[1].Src # Graph.Edges[1].Dst
    /\ Graph.Edges[1].Src = Graph.Edges[2].Dst
    /\ Graph.Edges[1].Dst = Graph.Edges[2].Src

\* The caller's graph is the diamond with a data consumer (with or without
\* the extra data edges), requested whole.
FanInScenario ==
    \E in \in FanInInputs : in.Graph = Graph /\ in.ComponentNodeIds = ComponentNodeIds

\* The caller's graph is the three control-flow nodes a, b, c joined by the
\* exec edges a -> b and b -> c and nothing else, requested whole with the
\* default settings.
ExecChainScenario(a, b, c) ==
    /\ {a, b, c} = {0, 1, 2}
    /\ Len(Graph.Nodes) = 3
    /\ GraphIds = {0, 1, 2}
    /\ RequestedIds = GraphIds
    /\ \A i \in Idx(Graph.Nodes) : At(Graph.Nodes, i).bHasExecPins
    /\ Len(Graph.Edges) = 2
    /\ {<<Graph.Edges[i].Src, Graph.Edges[i].Dst, Graph.Edges[i].Kind>> : i \in 1..2}
           = {<<a, b, EEdgeKind_Exec>>, <<b, c, EEdgeKind_Exec>>}
    /\ Settings = LayoutSettings(DefaultVariableGetMinLength, "Center")

\* The graph edges that lie within the requested component and are no
\* self-loops, by their place in the caller's edge array.
ComponentEdgeIndices ==
    {i \in 1..Len(Graph.Edges) :
        /\ Graph.Edges[i].Src \in RequestedIds
        /\ Graph.Edges[i].Dst \in RequestedIds
        /\ Graph.Edges[i].Src # Graph.Edges[i].Dst}

\* PlaceGlobalRankOrderCompact has run in the current call.
Placed == pc \in {"ApplyFinalPositions", "ReturnTrue"} /\ GlobalPlacement # NoPlacement

\* The working nodes at rank 0, order 0.
OriginNodes ==
    {i \in Idx(Nodes) : At(Nodes, i).GlobalRank = 0 /\ At(Nodes, i).GlobalOrder = 0}

\* Node a comes before node b as an anchor: control-flow pins first, then the
\* smaller NodeKey, then the smaller index.
AnchorBefore(a, b) ==
    \/ At(Nodes, a).bHasExecPins /\ ~At(Nodes, b).bHasExecPins
    \/ /\ At(Nodes, a).bHasExecPins = At(Nodes, b).bHasExecPins
       /\ \/ NodeKeyLess(At(Nodes, a).Key, At(Nodes, b).Key)
          \/ ~NodeKeyLess(At(Nodes, b).Key, At(Nodes, a).Key) /\ a < b

\* Node a is the best anchor among the candidates.
BestAnchorAmong(Candidates, a) ==
    a \in Candidates /\ \A b \in Candidates \ {a} : AnchorBefore(a, b)

\* The working nodes of a rank, its largest width and the largest horizontal
\* spacing configured for the kinds of its nodes.
NodesOfRank(r) == {i \in Idx(Nodes) : PlacementRank(At(Nodes, i)) = r}

WidestIn(r) == CHOOSE w \in {At(Nodes, i).Size[1] : i \in NodesOfRank(r)} :
                   \A i \in NodesOfRank(r) : At(Nodes, i).Size[1] <= w

SpacingOfKind(i) ==
    IF At(Nodes, i).bHasExecPins THEN Settings.NodeSpacingXExec ELSE Settings.NodeSpacingXData

WidestSpacingIn(r) == CHOOSE w \in {SpacingOfKind(i) : i \in NodesOfRank(r)} :
                          \A i \in NodesOfRank(r) : SpacingOfKind(i) <= w

\* The crossing-reduction sweeps are running.
Sweeping ==
    /\ pc = "RunCrossingReduction"
    /\ ~CrossingReductionSkips(MaxRank, kSugiyamaSweeps)
    /\ Sweep < kSugiyamaSweeps

\* Every edge of the caller's graph names pins its end nodes have.
PinsWithinCounts ==
    \A i \in 1..Len(Graph.Edges) :
        LET E == Graph.Edges[i]
        IN  \A a \in 1..Len(Graph.Nodes), b \in 1..Len(Graph.Nodes) :
                (Graph.Nodes[a].Id = E.Src /\ Graph.Nodes[b].Id = E.Dst) =>
                    /\ E.SrcPinIndex \in 0..(Graph.Nodes[a].OutputPinCount - 1)
                    /\ E.DstPinIndex \in 0..(Graph.Nodes[b].InputPinCount - 1)

\* The edges a sweep of the policy reads a neighbour through: the neighbour
\* lies one rank before (forward) or after (backward) the node and the
\* policy does not skip the edge.
SweptEdges(Policy) ==
    {e \in Idx(SugiyamaGraph.Edges) :
        LET Edge == At(SugiyamaGraph.Edges, e)
            Neighbor == At(SugiyamaGraph.Nodes, GetNeighborIndex(Policy, Edge))
            Node == At(SugiyamaGraph.Nodes,
                       IF Policy = "Fwd" THEN Edge.Dst ELSE Edge.Src)
        IN  /\ Edge.Src # Edge.Dst
            /\ Neighbor.Rank = Node.Rank + NeighborRankDelta(Policy)
            /\ \E bSkipDataPins \in (IF Policy = "Fwd" THEN {FALSE} ELSE {TRUE, FALSE}) :
                   ~ShouldSkip(Policy, Edge, Neighbor, bSkipDataPins)}

\* RunCrossingReduction has returned after its grouping pass.
GroupingDone ==
    pc = "ApplySugiyamaRanks" /\ ~CrossingReductionSkips(MaxRank, kSugiyamaSweeps)

\* The rank lists as the sweeps leave them, before the grouping pass.
OrdersBeforeGrouping ==
    LET Start == AssignInitialOrder(SugiyamaGraph, MaxRank)
    IN  RunSweepLoop(Start.Graph, Start.RankNodes, MaxRank, 0, kSugiyamaSweeps).RankNodes

\* The edges of minimum length 0 between real nodes of one rank.
ZeroLenEdges ==
    {e \in Idx(SugiyamaGraph.Edges) : IsZeroLenEdge(SugiyamaGraph, At(SugiyamaGraph.Edges, e))}

\* Node p feeds exactly one other node.
SingleConsumer(p) ==
    Cardinality({At(SugiyamaGraph.Edges, e).Dst :
                    e \in {x \in Idx(SugiyamaGraph.Edges) :
                              /\ At(SugiyamaGraph.Edges, x).Src = p
                              /\ At(SugiyamaGraph.Edges, x).Dst # p}}) = 1

\* The position of a node in the list of its rank.
PlaceInRank(n) ==
    CHOOSE k \in 1..Len(At(RankNodes, At(SugiyamaGraph.Nodes, n).Rank)) :
        At(RankNodes, At(SugiyamaGraph.Nodes, n).Rank)[k] = n

\* The nodes that reach a node of S along edges of ZeroLenEdges.
RECURSIVE ZeroChain(_, _)
ZeroChain(S, Rounds) ==
    IF Rounds = 0 THEN S
    ELSE ZeroChain(S \cup {At(SugiyamaGraph.Edges, e).Src :
                              e \in {x \in ZeroLenEdges : At(SugiyamaGraph.Edges, x).Dst \in S}},
                   Rounds - 1)

\* The graph as RemoveCycles received it: no edge marked reversed (the
\* loop changes nothing but the marks).
GivenGraph ==
    [SugiyamaGraph EXCEPT !.Edges =
        [i \in 1..Len(SugiyamaGraph.Edges) |->
            [SugiyamaGraph.Edges[i] EXCEPT !.bReversed = FALSE]]]

\* The nodes reached from n in that graph along one or more edges.
GivenReach(n) == EffectiveReach(GivenGraph, EffectiveSuccessors(GivenGraph, n),
                                Len(SugiyamaGraph.Nodes))

\* The synthetic nodes of the Sugiyama graph before long edges are split:
\* the exec tails.
TailNodes == {n \in Idx(SugiyamaGraph.Nodes) : At(SugiyamaGraph.Nodes, n).bIsDummy}

\* The edges that join node n to a tail.
TailEdgesOf(n) ==
    {e \in Idx(SugiyamaGraph.Edges) :
        At(SugiyamaGraph.Edges, e).Src = n /\ At(SugiyamaGraph.Edges, e).Dst \in TailNodes}

\* The control-flow edges that leave node n for a node of the component.
ExecOutEdges(n) ==
    {e \in Idx(SugiyamaGraph.Edges) :
        /\ At(SugiyamaGraph.Edges, e).Kind = EEdgeKind_Exec
        /\ At(SugiyamaGraph.Edges, e).Src = n
        /\ At(SugiyamaGraph.Edges, e).Dst \notin TailNodes}

\* ------------------------------------------------------------------------
\* Properties
\* ------------------------------------------------------------------------
\* C1: a call whose id list contains an id that the graph does not have
\* returns failure and leaves the result without node positions.
C1_MissingIdFails ==
    (CallEnded /\ ~AllIdsPresent) =>
        /\ pc = "ReturnFalse"
        /\ OutResult.NodePositions = EmptyMap

\* C2: after layer assignment, every edge u -> v of the graph left by cycle
\* removal (in its applied direction) has rank[v] >= rank[u] + MinLen, in
\* simple and in constrained mode.
C2_RankMonotone ==
    pc = "AddTerminalExecTailNodes" =>
        \A E \in SugiyamaEdges : RankSpan(E) >= E.MinLen

C4_Acyclic ==
    pc = "ApplyEdgeDirections" => ~HasDirectedCycle(SugiyamaGraph)

\* C4 witness: cycle removal has returned after flipping edges of a graph
\* with parallel edges (two edges joining the same pair of nodes).
C4_FlippedWithParallelEdges ==
    /\ pc = "ApplyEdgeDirections"
    /\ Flipped # <<>>
    /\ \E i, j \in 1..Len(SugiyamaGraph.Edges) :
          /\ i < j
          /\ {SugiyamaGraph.Edges[i].Src, SugiyamaGraph.Edges[i].Dst}
                 = {SugiyamaGraph.Edges[j].Src, SugiyamaGraph.Edges[j].Dst}
    /\ Len(SugiyamaGraph.Edges) >= 3

\* C5: the cycle-removal loop terminates: once entered, a pass that finds no
\* back edge is reached and RemoveCycles returns.
C5_CycleRemovalTerminates ==
    (pc = "RemoveCycles") ~> (pc = "ApplyEdgeDirections")

\* C5 witness: RemoveCycles has returned after two or more flips.
C5_ReturnedAfterFlips ==
    /\ pc = "ApplyEdgeDirections"
    /\ Len(Flipped) >= 2

\* C6: after a successful layout of two or more working nodes, the position
\* returned for the anchor node is that node's original position.
C6_AnchorKeepsPosition ==
    (pc = "ReturnTrue" /\ Len(Nodes) >= 2) =>
        LET Anchor == GlobalPlacement.AnchorNodeIndex
        IN  /\ Anchor \in Idx(Nodes)
            /\ At(Nodes, Anchor).Id \in DOMAIN OutResult.NodePositions
            /\ OutResult.NodePositions[At(Nodes, Anchor).Id] = At(Nodes, Anchor).Position

\* C7: a second call with the same graph, id set and settings, one of the
\* node array, edge array and id list handed over in another order, ends as
\* the first call did and returns the same positions.
C7_SameLogicalInputSameResult ==
    (Run = 2 /\ CallEnded /\ RequestedIds = {FirstRun.ComponentNodeIds[i] :
                                               i \in 1..Len(FirstRun.ComponentNodeIds)}) =>
        /\ pc = FirstRun.pc
        /\ OutResult.NodePositions = FirstRun.OutResult.NodePositions

\* C8: a call with an empty id list returns failure with a non-empty error
\* message and an empty result, whatever the result object held before.
C8_EmptyListFails ==
    (ComponentNodeIds = <<>> /\ pc # "LayoutComponent") =>
        /\ pc = "ReturnFalse"
        /\ OutError # ""
        /\ OutResult = EmptyResult

\* C8 witness: the call with the empty list was handed a result object that
\* held the positions of an earlier successful call, and has returned.
C8_StaleResultWasReset ==
    /\ Run = 2
    /\ ComponentNodeIds = <<>>
    /\ FirstRun.pc = "ReturnTrue"
    /\ FirstRun.OutResult.NodePositions # EmptyMap
    /\ pc = "ReturnFalse"

\* C9: when every requested id is in the graph and the call succeeds, the
\* position map has an entry for each requested id and for nothing else.
C9_ExactlyTheRequestedIds ==
    (pc = "ReturnTrue" /\ AllIdsPresent) =>
        DOMAIN OutResult.NodePositions = RequestedIds

\* C9 witness: a successful call whose Sugiyama graph held a dummy-chain
\* node and an exec-tail node beside the three requested nodes.
C9_SyntheticNodesLeftOut ==
    /\ pc = "ReturnTrue"
    /\ AllIdsPresent
    /\ Cardinality(RequestedIds) = 3
    /\ \E N \in SugiyamaNodes : N.bIsDummy /\ N.bHasExecPins
    /\ \E N \in SugiyamaNodes : N.bIsDummy /\ ~N.bHasExecPins

\* C10: an id list that reduces to one id of the graph returns success with
\* that node's original position as the only entry, and neither ranking nor
\* ordering runs.
C10_SingleNodeIdentity ==
    (Cardinality(RequestedIds) = 1 /\ AllIdsPresent /\ pc # "LayoutComponent") =>
        /\ pc = "ReturnTrue"
        /\ \A id \in RequestedIds :
              OutResult.NodePositions = MapAdd(EmptyMap, id, OriginalPosition(id))
        /\ SugiyamaGraph = EmptySugiyamaGraph
        /\ Layering = NoLayering
        /\ RankNodes = <<>>
        /\ GlobalPlacement = NoPlacement

\* C10 witness: the list names one node twice, in a graph of two nodes, and
\* the call has returned.
C10_RepeatedIdReturned ==
    /\ pc = "ReturnTrue"
    /\ Len(ComponentNodeIds) = 2
    /\ Cardinality(RequestedIds) = 1
    /\ AllIdsPresent
    /\ Len(Graph.Nodes) = 2

\* C11: one sweep more than the configured kSugiyamaSweeps leaves every
\* rank's final order as the configured number of sweeps left it.
C11_ExtraSweepSameOrder ==
    pc = "ApplySugiyamaRanks" => RankNodes = OrdersAfter(kSugiyamaSweeps + 1)

\* C11 witness: crossing reduction has returned on the six-node diamond with
\* a back edge, and its sweeps changed the initial order of some rank.
C11_DiamondReordered ==
    /\ pc = "ApplySugiyamaRanks"
    /\ Len(Nodes) = 6
    /\ Flipped # <<>>
    /\ RankNodes # AssignInitialOrder(SugiyamaGraph, MaxRank).RankNodes

\* C12: the final position of every working node is its placement position
\* plus one common offset, the anchor's original position minus the anchor's
\* placement position.
C12_OnlyTranslated ==
    (pc = "ReturnTrue" /\ Len(Nodes) >= 2) =>
        LET Anchor == GlobalPlacement.AnchorNodeIndex
            Offset == VecSub(At(Nodes, Anchor).Position, GlobalPlacement.Positions[Anchor])
        IN  /\ Anchor \in Idx(Nodes)
            /\ \A i \in Idx(Nodes) :
                  /\ At(Nodes, i).Id \in DOMAIN OutResult.NodePositions
                  /\ OutResult.NodePositions[At(Nodes, i).Id]
                         = VecAdd(GlobalPlacement.Positions[i], Offset)

\* C13: no step of LayoutComponent changes the caller's graph: every node
\* field (rank and order fields included) and every edge keeps its value.
C13_GraphUntouched == [][Step => UNCHANGED Graph]_vars

\* C13 witness: a call has returned true after reversing an edge, adding a
\* dummy node and ranking its working nodes, and the caller's nodes still
\* carry rank 0.
C13_OnlyWorkingCopyChanged ==
    /\ pc = "ReturnTrue"
    /\ Flipped # <<>>
    /\ \E N \in SugiyamaNodes : N.bIsDummy
    /\ \E i \in Idx(Nodes) : At(Nodes, i).GlobalRank > 0
    /\ \A i \in Idx(Graph.Nodes) : At(Graph.Nodes, i).GlobalRank = 0

\* C14: for two control-flow nodes joined by the exec edges A -> B and
\* B -> A, cycle removal reverses exactly one edge, no directed cycle
\* remains, and layer assignment gives the two nodes the ranks 0 and 1.
C14_TwoCycleBroken ==
    TwoCycleScenario =>
        /\ pc = "ApplyEdgeDirections" =>
              /\ Len(Flipped) = 1
              /\ Cardinality({i \in 1..Len(SugiyamaGraph.Edges) :
                                 SugiyamaGraph.Edges[i].bReversed}) = 1
        /\ (pc = "ApplyEdgeDirections" \/ Layered) => ~HasDirectedCycle(SugiyamaGraph)
        /\ Layered => {At(SugiyamaGraph.Nodes, 0).Rank, At(SugiyamaGraph.Nodes, 1).Rank} = {0, 1}

\* C14 witness: the call on the two-node cycle has returned true after one
\* flip.
C14_TwoCycleLaidOut ==
    /\ TwoCycleScenario
    /\ pc = "ReturnTrue"
    /\ Len(Flipped) = 1
    /\ {At(Nodes, 0).GlobalRank, At(Nodes, 1).GlobalRank} = {0, 1}

\* C15: for the diamond A -> B, A -> C, B -> D, C -> D whose D is a data
\* consumer, layer assignment gives rank(D) = max(rank(B), rank(C)) + 1.
C15_FanInRank ==
    (FanInScenario /\ Layered) =>
        At(SugiyamaGraph.Nodes, 3).Rank
            = Max2(At(SugiyamaGraph.Nodes, 1).Rank, At(SugiyamaGraph.Nodes, 2).Rank) + 1

\* C15 witness: the plain diamond has been layered in constrained mode, with
\* B and C on rank 1 and D on rank 2.
C15_DiamondLayered ==
    /\ FanInScenario
    /\ Len(Graph.Edges) = 4
    /\ pc = "AddTerminalExecTailNodes"
    /\ Layering.bUseMaxLenConstraints
    /\ At(SugiyamaGraph.Nodes, 1).Rank = 1
    /\ At(SugiyamaGraph.Nodes, 2).Rank = 1
    /\ At(SugiyamaGraph.Nodes, 3).Rank = 2

\* C16: for three control-flow nodes A -> B -> C joined by exec edges only,
\* with default spacing, the layout gives the ranks 0, 1, 2 and the orders
\* 0, 0, 0, and each node's x exceeds its predecessor's by the predecessor's
\* width plus the exec horizontal spacing.
C16_LinearChain ==
    \A a, b, c \in 0..2 :
        (ExecChainScenario(a, b, c) /\ pc = "ReturnTrue") =>
            /\ <<At(Nodes, a).GlobalRank, At(Nodes, b).GlobalRank, At(Nodes, c).GlobalRank>>
                   = <<0, 1, 2>>
            /\ \A i \in Idx(Nodes) : At(Nodes, i).GlobalOrder = 0
            /\ OutResult.NodePositions[b][1]
                   = OutResult.NodePositions[a][1] + At(Nodes, a).Size[1] + DefaultNodeSpacingX
            /\ OutResult.NodePositions[c][1]
                   = OutResult.NodePositions[b][1] + At(Nodes, b).Size[1] + DefaultNodeSpacingX

\* C16 witness: the chain 2 -> 0 -> 1, whose ids and keys run against the
\* chain's direction, has been laid out.
C16_ChainLaidOut ==
    /\ ExecChainScenario(2, 0, 1)
    /\ pc = "ReturnTrue"
    /\ DOMAIN OutResult.NodePositions = {0, 1, 2}
    /\ At(Nodes, 1).GlobalRank = 2

\* C17: when every requested id is in the graph, the working edges are
\* exactly the graph's edges whose two end ids are requested, self-loops
\* left out, each joining the working nodes that carry its end ids.
C17_OnlyComponentEdges ==
    (pc = "RemoveCycles" /\ AllIdsPresent) =>
        /\ Len(Edges) = Cardinality(ComponentEdgeIndices)
        /\ {<<At(Nodes, Edges[i].Src).Id, At(Nodes, Edges[i].Dst).Id, Edges[i].Kind>> :
               i \in 1..Len(Edges)}
             = {<<Graph.Edges[i].Src, Graph.Edges[i].Dst, Graph.Edges[i].Kind>> :
                   i \in ComponentEdgeIndices}

\* C18: compact placement stops relaxing before a pass without change only
\* after max(3, node count) passes.
C18_RelaxedToFixedPoint ==
    Placed =>
        LET Passes == GlobalPlacement.Passes
        IN  \/ ~Passes[Len(Passes)].bUpdated
            \/ Len(Passes) >= Max2(3, Len(Nodes))

\* C19: in the placement's positions the nodes of one rank do not overlap:
\* each node lies below its predecessor in the rank by at least the
\* predecessor's height plus the vertical spacing of its own kind.
C19_NoVerticalOverlap ==
    Placed =>
        LET Layers == PlacementRankNodes(Nodes)
        IN  \A r \in 1..Len(Layers) : \A k \in 1..(Len(Layers[r]) - 1) :
                LET p == Layers[r][k]
                    c == Layers[r][k + 1]
                IN  GlobalPlacement.Positions[c][2]
                        >= GlobalPlacement.Positions[p][2] + At(Nodes, p).Size[2]
                           + (IF At(Nodes, c).bHasExecPins
                              THEN Max2(0, Settings.NodeSpacingYExec)
                              ELSE Max2(0, Settings.NodeSpacingYData))

\* C20: the anchor is the rank 0, order 0 node with control-flow pins when
\* there is one, otherwise the best candidate over all nodes (control-flow
\* pins first, then the smallest NodeKey).
C20_ExecOriginOrBestOverall ==
    Placed =>
        LET ExecOrigin == {i \in OriginNodes : At(Nodes, i).bHasExecPins}
        IN  IF ExecOrigin # {}
            THEN GlobalPlacement.AnchorNodeIndex \in ExecOrigin
            ELSE BestAnchorAmong(Idx(Nodes), GlobalPlacement.AnchorNodeIndex)

\* C20, amended: the anchor is the best candidate among the rank 0, order 0
\* nodes, with or without control-flow pins; only when no node is at rank 0,
\* order 0 is it the best candidate over all nodes.
C20_OriginFirstThenBest ==
    Placed =>
        BestAnchorAmong(IF OriginNodes # {} THEN OriginNodes ELSE Idx(Nodes),
                        GlobalPlacement.AnchorNodeIndex)

\* C20 happens: the placed component has a data node at rank 0, order 0 and
\* a control-flow node elsewhere, and the data node is the anchor.
C20_DataOriginAnchored ==
    /\ Placed
    /\ AllIdsPresent
    /\ GlobalPlacement.AnchorNodeIndex \in OriginNodes
    /\ ~At(Nodes, GlobalPlacement.AnchorNodeIndex).bHasExecPins
    /\ \E j \in Idx(Nodes) : At(Nodes, j).bHasExecPins

\* C21: with left-aligned columns the nodes of rank 0 stand at x = 0, and
\* the nodes of rank r + 1 stand right of those of rank r by the largest
\* width in rank r plus the largest horizontal spacing configured for the
\* kinds of the nodes in rank r.
C21_ColumnsAccumulate ==
    (Placed /\ Settings.RankAlignment = "Left"
        /\ Settings.NodeSpacingXExec >= 0 /\ Settings.NodeSpacingXData >= 0) =>
        \A i \in Idx(Nodes) :
            /\ PlacementRank(At(Nodes, i)) = 0 => GlobalPlacement.Positions[i][1] = 0
            /\ \A j \in Idx(Nodes) :
                   PlacementRank(At(Nodes, j)) = PlacementRank(At(Nodes, i)) + 1 =>
                       GlobalPlacement.Positions[j][1]
                           = GlobalPlacement.Positions[i][1]
                             + WidestIn(PlacementRank(At(Nodes, i)))
                             + WidestSpacingIn(PlacementRank(At(Nodes, i)))

\* C22: in constrained mode the backward tightening runs at most 10 sweeps,
\* and no sweep is run after a sweep that changed no rank.
C22_StopsAfterUnchangedSweep ==
    (Layered /\ Layering.bUseMaxLenConstraints) =>
        /\ Len(Layering.History) <= TightenSweeps
        /\ \A k \in 1..(Len(Layering.History) - 1) : Layering.History[k].bUpdated

\* C23: when every edge of the input names a pin below its owner's pin
\* count on that pin's side, every pin offset a sweep adds to a barycenter
\* is at least 0 and below 1, for reversed edges and for dummy and exec-tail
\* segments as well.
C23_PinOffsetInUnitInterval ==
    (Sweeping /\ PinsWithinCounts) =>
        \A Policy \in {"Fwd", "Bwd"} : \A e \in SweptEdges(Policy) :
            LET Edge == At(SugiyamaGraph.Edges, e)
                Offset == GetPinOffset(GetPinIndex(Policy, Edge),
                              GetPinCount(Policy, At(SugiyamaGraph.Nodes,
                                                     GetNeighborIndex(Policy, Edge))))
            IN  0 <= Offset.n /\ Offset.n < Offset.d

\* C24: after the grouping pass every producer with a single consumer that
\* shares the consumer's rank through an edge of minimum length 0 comes
\* after the consumer in the rank, and every node between the two is a
\* producer chained to that consumer by such edges.
C24_ProducersFollowConsumer ==
    GroupingDone =>
        \A e \in ZeroLenEdges :
            LET p == At(SugiyamaGraph.Edges, e).Src
                c == At(SugiyamaGraph.Edges, e).Dst
            IN  SingleConsumer(p) =>
                    /\ PlaceInRank(c) < PlaceInRank(p)
                    /\ \A n \in Idx(SugiyamaGraph.Nodes) :
                           (/\ At(SugiyamaGraph.Nodes, n).Rank = At(SugiyamaGraph.Nodes, c).Rank
                            /\ PlaceInRank(c) < PlaceInRank(n)
                            /\ PlaceInRank(n) < PlaceInRank(p))
                               => n \in ZeroChain({c}, Len(SugiyamaGraph.Nodes))

\* C24 happens: the grouping pass moved a producer behind its consumer.
C24_ProducerMoved ==
    /\ GroupingDone
    /\ RankNodes # OrdersBeforeGrouping
    /\ \E e \in ZeroLenEdges : SingleConsumer(At(SugiyamaGraph.Edges, e).Src)

\* C25: after layer assignment some real node has rank 0, and after
\* placement some working node stands at rank 0, order 0.
C25_RankZeroInUse ==
    /\ (pc = "AddTerminalExecTailNodes" /\ SugiyamaGraph.Nodes # <<>>) =>
           \E n \in Idx(SugiyamaGraph.Nodes) :
               ~At(SugiyamaGraph.Nodes, n).bIsDummy /\ At(SugiyamaGraph.Nodes, n).Rank = 0
    /\ Placed => OriginNodes # {}

\* C26: every edge cycle removal reverses joins two nodes of one strongly
\* connected component of the graph it was given; no edge of an acyclic
\* graph is reversed.
C26_FlipsInsideComponents ==
    pc \in {"RemoveCycles", "ApplyEdgeDirections"} =>
        /\ \A k \in 1..Len(Flipped) :
               LET E == At(SugiyamaGraph.Edges, Flipped[k])
               IN  /\ E.Dst \in GivenReach(E.Src)
                   /\ E.Src \in GivenReach(E.Dst)
        /\ ~HasDirectedCycle(GivenGraph) => Flipped = <<>>

\* C26 happens: cycle removal has returned after reversing an edge of a
\* graph that also has an edge between two components.
C26_FlippedBesideBridge ==
    /\ pc = "ApplyEdgeDirections"
    /\ Flipped # <<>>
    /\ \E i \in 1..Len(SugiyamaGraph.Edges) :
           SugiyamaGraph.Edges[i].Src \notin GivenReach(SugiyamaGraph.Edges[i].Dst)

\* C29: cycle removal flips no edge more than once, and so flips no more
\* edges than the graph has.
C29_NoEdgeFlippedTwice ==
    /\ \A i, j \in 1..Len(Flipped) : i # j => Flipped[i] # Flipped[j]
    /\ Len(Flipped) <= Len(SugiyamaGraph.Edges)

\* C27: after the initial ordering, after every sweep and after the grouping
\* pass, the list of each rank holds exactly the nodes of that rank (dummy
\* nodes included), each once, and each node's order is its position in the
\* list, so the orders of a rank are 0 .. n-1.
C27_OrderIsPosition ==
    pc \in {"RunCrossingReduction", "ApplySugiyamaRanks"} =>
        \A r \in 1..Len(RankNodes) :
            /\ {RankNodes[r][k] : k \in 1..Len(RankNodes[r])}
                   = {n \in Idx(SugiyamaGraph.Nodes) : At(SugiyamaGraph.Nodes, n).Rank = r - 1}
            /\ \A k \in 1..Len(RankNodes[r]) :
                   /\ At(SugiyamaGraph.Nodes, RankNodes[r][k]).Order = k - 1
                   /\ \A m \in 1..Len(RankNodes[r]) :
                          RankNodes[r][m] = RankNodes[r][k] => m = k

\* C27 happens: the sweeps and the grouping pass have run on ranks one of
\* which holds a dummy node beside another node, and the final order of some
\* rank differs from the initial one.
C27_ReorderedWithDummy ==
    /\ GroupingDone
    /\ RankNodes # AssignInitialOrder(SugiyamaGraph, MaxRank).RankNodes
    /\ \E r \in 1..Len(RankNodes) :
           /\ Len(RankNodes[r]) >= 2
           /\ \E k \in 1..Len(RankNodes[r]) : At(SugiyamaGraph.Nodes, RankNodes[r][k]).bIsDummy

\* C28: after the padding pass a real control-flow node without an outgoing
\* control-flow edge and of a rank below the maximum has exactly one
\* exec-tail node, at the maximum rank and joined to it by one control-flow
\* edge; no other node has a tail, and every tail belongs to one node.
C28_TailsOnTerminals ==
    pc = "SplitLongEdges" =>
        /\ \A n \in Idx(SugiyamaGraph.Nodes) \ TailNodes :
               IF /\ At(SugiyamaGraph.Nodes, n).bHasExecPins
                  /\ ExecOutEdges(n) = {}
                  /\ At(SugiyamaGraph.Nodes, n).Rank < MaxRank
               THEN /\ Cardinality(TailEdgesOf(n)) = 1
                    /\ \A e \in TailEdgesOf(n) :
                           /\ At(SugiyamaGraph.Edges, e).Kind = EEdgeKind_Exec
                           /\ At(SugiyamaGraph.Nodes, At(SugiyamaGraph.Edges, e).Dst).Rank
                                  = MaxRank
               ELSE TailEdgesOf(n) = {}
        /\ \A t \in TailNodes :
               Cardinality({e \in Idx(SugiyamaGraph.Edges) :
                               t \in {At(SugiyamaGraph.Edges, e).Src,
                                      At(SugiyamaGraph.Edges, e).Dst}}) = 1

\* C28 happens: the padding pass gave a tail to one terminal control-flow
\* node and none to another, which stands at the maximum rank.
C28_TailBesideLastRankTerminal ==
    /\ pc = "SplitLongEdges"
    /\ TailNodes # {}
    /\ \E n \in Idx(SugiyamaGraph.Nodes) \ TailNodes :
           /\ At(SugiyamaGraph.Nodes, n).bHasExecPins
           /\ ExecOutEdges(n) = {}
           /\ At(SugiyamaGraph.Nodes, n).Rank = MaxRank

\* C30: in constrained mode the first backward sweep reaches the final
\* ranks: the later sweeps change no rank.
C30_FirstSweepIsFinal ==
    (Layered /\ Layering.bUseMaxLenConstraints) =>
        \A k \in 2..Len(Layering.History) :
            /\ ~Layering.History[k].bUpdated
            /\ Layering.History[k].RankBase = Layering.History[1].RankBase

\* C30 happens: the first backward sweep moved two nodes, one of them as a
\* consequence of the other's move in the same sweep.
C30_FirstSweepMovedChain ==
    /\ pc = "AddTerminalExecTailNodes"
    /\ Layering.bUseMaxLenConstraints
    /\ Len(Layering.History) >= 2
    /\ \E E \in SugiyamaEdges :
           /\ At(Layering.History[1].RankBase, E.Src) > At(Layering.Forward, E.Src)
           /\ At(Layering.History[1].RankBase, E.Dst) > At(Layering.Forward, E.Dst)

====
